---------------------------- MODULE Spec2Model ----------------------------
(***************************************************************************)
(* Lab-report extraction workflow of the AI Health Passport service.       *)
(*                                                                         *)
(* The model covers the HTTP handlers of app/routers/process.py, the       *)
(* LangGraph workflow of app/graphs/lab_extraction (graph.py, nodes.py),   *)
(* the PDF and vision services, the reference catalog and the trend        *)
(* documents of app/models/biomarker.py.                                   *)
(*                                                                         *)
(* One action is one HTTP request: the handler runs to its return (or to   *)
(* the exception it raises), the graph run it starts included.             *)
(*                                                                         *)
(* Numeric measurement values are kept in tenths (14.2 g/dL is 142).       *)
(* A Python Optional is a sequence of length 0 (None) or 1.                *)
(***************************************************************************)
EXTENDS Integers, Sequences, FiniteSets, TLC

\* ------------------------------------------------------------------ bounds
MaxCalls == 3          \* number of requests that are explored
MaxRefusingCalls == 2  \* the same, with a database that may refuse a write
MaxJsonTokens == 5     \* length of the JSON objects a model response holds
MaxReadings == 3       \* readings stored for one patient and biomarker
MaxPages == 3          \* page images handed to extract_from_multiple_images
MaxSteps == 12         \* nodes one run of the graph may start

\* ---------------------------------------------------------------- options
None == <<>>
Some(v) == <<v>>
IsNone(o) == o = <<>>
Get(o) == o[1]

\* Python truthiness of an Optional[str]: None and "" are falsy
Truthy(o) == o # None /\ Get(o) # ""

\* ---------------------------------------------------------------- catalog
\* BIOMARKER_MAPPING, restricted to two of its entries; ranges in tenths.
CatalogKeys == {"hemoglobin", "cholesterol_total"}

Aliases(key) ==
    CASE key = "hemoglobin" -> {"Hb", "Hgb", "Haemoglobin", "HGB", "Hemoglobin"}
      [] key = "cholesterol_total" -> {"Total Cholesterol", "Cholesterol", "TC", "Serum Cholesterol"}

CatalogCategory(key) ==
    CASE key = "hemoglobin" -> "CBC"
      [] key = "cholesterol_total" -> "LIPID"

\* the "reference" dict of an entry: gender key -> <<min, max>>
CatalogReference(key) ==
    CASE key = "hemoglobin" ->
            [male |-> <<135, 175>>, female |-> <<120, 160>>, default |-> <<120, 175>>]
      [] key = "cholesterol_total" ->
            [default |-> <<0, 2000>>]

\* str.lower().strip() on the names the model uses
LowerStrip(name) ==
    CASE name = "Hemoglobin" -> "hemoglobin"
      [] name = "hemoglobin" -> "hemoglobin"
      [] name = "HEMOGLOBIN" -> "hemoglobin"
      [] name = "Hb" -> "hb"
      [] name = "Hgb" -> "hgb"
      [] name = "HGB" -> "hgb"
      [] name = "Haemoglobin" -> "haemoglobin"
      [] name = "Total Cholesterol" -> "total cholesterol"
      [] name = "total cholesterol" -> "total cholesterol"
      [] name = "Cholesterol" -> "cholesterol"
      [] name = "TC" -> "tc"
      [] name = "Serum Cholesterol" -> "serum cholesterol"
      [] name = "Unknown Test" -> "unknown test"
      [] name = "UNKNOWN TEST" -> "unknown test"
      [] name = " Hemoglobin " -> "hemoglobin"
      [] name = "Male" -> "male"
      [] name = "unknown-test" -> "unknown-test"
      [] name = "" -> ""
      [] OTHER -> name

\* str.lower() alone: the margin of blanks stays
Lower(name) == IF name = " Hemoglobin " THEN " hemoglobin " ELSE LowerStrip(name)

\* str.replace(" ", "_").replace("-", "_") on lowercased names
Slug(lower) ==
    CASE lower = "total cholesterol" -> "total_cholesterol"
      [] lower = "serum cholesterol" -> "serum_cholesterol"
      [] lower = "unknown test" -> "unknown_test"
      [] lower = "unknown-test" -> "unknown_test"
      [] lower = " hemoglobin " -> "_hemoglobin_"
      [] OTHER -> lower

\* the catalog keys that list name_lower among their aliases
AliasHits(name_lower) ==
    {k \in CatalogKeys : \E a \in Aliases(k) : LowerStrip(a) = name_lower}

\* AliasOrSlug, but the alias lists are not consulted
AliasOrSlug_NoAlias(name_lower, hits) == Slug(name_lower)

\* the tail of standardize_biomarker_name, from the alias loop on
AliasOrSlug(name_lower, hits) ==
    IF hits # {} THEN CHOOSE k \in hits : TRUE ELSE Slug(name_lower)

StandardizeLower(name_lower) ==
    IF name_lower \in CatalogKeys THEN name_lower
    ELSE AliasOrSlug(name_lower, AliasHits(name_lower))

standardize_biomarker_name(name) == StandardizeLower(LowerStrip(name))

get_biomarker_category(standardized_name) ==
    IF standardized_name \in CatalogKeys THEN CatalogCategory(standardized_name)
    ELSE "OTHER"

\* gender is an Optional[str]; the result is <<Optional min, Optional max>>
RangeOf(pair) == <<Some(pair[1]), Some(pair[2])>>

\* ref: the "reference" dict of the entry; gender_lower: gender.lower(), ""
\* for no gender
ReferenceFor(ref, gender_lower) ==
    IF gender_lower # "" /\ gender_lower \in DOMAIN ref THEN RangeOf(ref[gender_lower])
    ELSE IF "default" \in DOMAIN ref THEN RangeOf(ref["default"])
    ELSE <<None, None>>

get_reference_range(standardized_name, gender) ==
    IF standardized_name \notin CatalogKeys THEN <<None, None>>
    ELSE ReferenceFor(CatalogReference(standardized_name),
                      IF Truthy(gender) THEN LowerStrip(Get(gender)) ELSE "")

\* get_flag(standardized_name, value, ref_min, ref_max, gender); the result
\* is an Optional[str].  value, ref_min, ref_max are tenths, so
\* value < ref_min * 0.8 is 10 * value < 8 * ref_min.
EffectiveRange(standardized_name, ref_min, ref_max, gender) ==
    IF IsNone(ref_min) \/ IsNone(ref_max)
    THEN get_reference_range(standardized_name, gender)
    ELSE <<ref_min, ref_max>>

FlagInRange(value, range) ==
    IF IsNone(range[1]) \/ IsNone(range[2]) THEN None
    ELSE IF value < Get(range[1])
         THEN IF 10 * value < 8 * Get(range[1]) THEN Some("CRITICAL_LOW") ELSE Some("LOW")
    ELSE IF value > Get(range[2])
         THEN IF 10 * value > 12 * Get(range[2]) THEN Some("CRITICAL_HIGH") ELSE Some("HIGH")
    ELSE None

get_flag(standardized_name, value, ref_min, ref_max, gender) ==
    FlagInRange(value, EffectiveRange(standardized_name, ref_min, ref_max, gender))


\* --------------------------------------------------------------- documents
\* An uploaded PDF as the PDF libraries see it.  pages = 0 is a file that
\* fitz cannot open (get_page_count returns 0 for it).  textLen is the number
\* of characters of the stripped text of all pages, tables the number of
\* tables pdfplumber finds, images whether any page embeds an image, key the
\* password that authenticates an encrypted file.
Pdf(pages, encrypted, textLen, tables, images) ==
    [pages |-> pages, encrypted |-> encrypted, key |-> "good",
     textLen |-> textLen, tables |-> tables, images |-> images]

CorruptPdf == Pdf(0, FALSE, 0, 0, FALSE)
EncryptedPdf == Pdf(1, TRUE, 250, 1, FALSE)
TextPdf == Pdf(1, FALSE, 250, 1, FALSE)
ScannedPdf == Pdf(1, FALSE, 0, 0, TRUE)

\* dates: a parseable ISO date is a day number, anything else is not valid
Date(d) == [valid |-> TRUE, day |-> d]
BadDate == [valid |-> FALSE, day |-> 0]

\* The file can be read with this Optional password
Accessible(doc, password) ==
    /\ doc.pages > 0
    /\ (doc.encrypted => Truthy(password) /\ Get(password) = doc.key)

PDF_check_encryption(doc) == doc.pages > 0 /\ doc.encrypted

PDF_get_page_count(doc) == doc.pages

\* <<success, Optional error>>
PDF_decrypt_pdf(doc, password) ==
    IF doc.pages = 0 THEN <<FALSE, Some("cannot open file")>>
    ELSE IF ~doc.encrypted THEN <<TRUE, None>>
    ELSE IF password = doc.key THEN <<TRUE, None>>
    ELSE <<FALSE, Some("Incorrect password")>>

\* length of the extracted text ("" on every failure)
PDF_extract_text(doc, password) ==
    IF Accessible(doc, password) THEN doc.textLen ELSE 0

PDF_extract_tables(doc, password) ==
    IF Accessible(doc, password) THEN doc.tables ELSE 0

TextPerPageMin == 100

\* PDF_has_images_or_scanned, but the images of the pages are not counted
PDF_has_images_or_scanned_NoImages(doc, password) ==
    IF ~Accessible(doc, password) THEN TRUE
    ELSE doc.textLen < TextPerPageMin * doc.pages

PDF_has_images_or_scanned(doc, password) ==
    IF ~Accessible(doc, password) THEN TRUE
    ELSE \/ doc.textLen < TextPerPageMin * doc.pages
         \/ doc.images

\* number of page images written
PDF_pdf_to_images(doc, password) ==
    IF Accessible(doc, password) THEN doc.pages ELSE 0

\* ------------------------------------------------------------ vision model
\* One biomarker object of a model response; every field may be JSON null.
Bio(name, value, rmin, rmax, flag) ==
    [name |-> name, value |-> value, unit |-> "g/dL",
     reference_min |-> rmin, reference_max |-> rmax, flag |-> flag]

\* What extract_from_image returns for one call: an {"error": ...} dict or
\* the parsed object.
VisionError ==
    [error |-> TRUE, lab_name |-> None, report_date |-> None,
     report_type |-> None, biomarkers |-> <<>>]

VisionOk(lab, date, type, bios) ==
    [error |-> FALSE, lab_name |-> lab, report_date |-> date,
     report_type |-> type, biomarkers |-> bios]

HgbNormal == Bio(Some("Hemoglobin"), Some(142), Some(135), Some(175), None)
HgbLow == Bio(Some("HGB"), Some(110), None, None, Some("LOW"))
NullName == Bio(None, Some(142), None, None, None)

VisionResults ==
    { VisionError,
      VisionOk(None, None, Some("OTHER"), <<>>),
      VisionOk(Some("Aster"), Some(Date(1)), Some("CBC"), <<HgbNormal>>),
      VisionOk(None, None, Some("CBC"), <<HgbLow>>),
      VisionOk(None, Some(Date(2)), Some("CBC"), <<NullName>>) }

\* one response per page image
PageResults(n) == [1..n -> VisionResults]

MergedEmpty ==
    [lab_name |-> None, report_date |-> None, report_type |-> "OTHER",
     biomarkers |-> <<>>]

MergePage(m, r) ==
    IF r.error THEN m
    ELSE [lab_name |-> IF Truthy(r.lab_name) THEN r.lab_name ELSE m.lab_name,
          report_date |-> IF r.report_date # None THEN r.report_date ELSE m.report_date,
          report_type |-> IF Truthy(r.report_type) /\ Get(r.report_type) # "OTHER"
                          THEN Get(r.report_type) ELSE m.report_type,
          biomarkers |-> m.biomarkers \o r.biomarkers]

RECURSIVE MergePages(_, _, _)
MergePages(m, results, i) ==
    IF i > Len(results) THEN m
    ELSE MergePages(MergePage(m, results[i]), results, i + 1)

\* the "seen" dict: keys in order of first insertion, each with its last value
LowerName(bio) == Lower(Get(bio.name))

RECURSIVE DedupKeepLast(_, _)
DedupKeepLast(bios, i) ==
    IF i > Len(bios) THEN <<>>
    ELSE LET key == LowerName(bios[i])
             first == \A j \in 1..(i - 1) : LowerName(bios[j]) # key
             lastIdx == CHOOSE j \in i..Len(bios) :
                           /\ LowerName(bios[j]) = key
                           /\ \A k \in (j + 1)..Len(bios) : LowerName(bios[k]) # key
         IN  IF first THEN <<bios[lastIdx]>> \o DedupKeepLast(bios, i + 1)
             ELSE DedupKeepLast(bios, i + 1)

\* extract_from_multiple_images: [raised, value].  bio.get("name", "").lower()
\* raises AttributeError when the name is null.
extract_from_multiple_images(results) ==
    LET m == MergePages(MergedEmpty, results, 1)
    IN  IF \E i \in 1..Len(m.biomarkers) : IsNone(m.biomarkers[i].name)
        THEN [raised |-> TRUE, value |-> m]
        ELSE [raised |-> FALSE,
              value |-> [m EXCEPT !.biomarkers = DedupKeepLast(m.biomarkers, 1)]]

\* ------------------------------------------------------------ JSON recovery
\* A model response is a sequence of tokens, each a run of characters:
\*   "{"  "}"     a brace of the JSON structure, or of prose
\*   "m"          a member with no brace in it, as "value": 14.2
\*   "m{"  "m}"   a member whose string value holds a brace, as "unit": "}"
\*   "FENCE_JSON"  "FENCE"   a fence of three backticks, with and without
\*                the word json
\*   "w"          a word of prose
\* Blanks and line ends are not kept (the code strips them).  A parsed
\* object is kept as the tokens it was parsed from.
MemberTokens == {"m", "m{", "m}"}
JsonTokens == {"{", "}"} \cup MemberTokens
FenceTokens == {"FENCE_JSON", "FENCE"}

\* json.loads: the index behind the object that starts at i, 0 when there
\* is none (JSONDecodeError)
RECURSIVE ParseObject(_, _), ParseMembers(_, _)
ParseObject(t, i) ==
    IF i > Len(t) \/ t[i] # "{" THEN 0 ELSE ParseMembers(t, i + 1)

\* j: where the nested object that starts at i ends
AfterNested(t, j) == IF j = 0 THEN 0 ELSE ParseMembers(t, j)

ParseMembers(t, i) ==
    IF i > Len(t) THEN 0
    ELSE IF t[i] = "}" THEN i + 1
    ELSE IF t[i] \in MemberTokens THEN ParseMembers(t, i + 1)
    ELSE IF t[i] = "{" THEN AfterNested(t, ParseObject(t, i))
    ELSE 0

\* Optional dict
json_loads(t) == IF ParseObject(t, 1) = Len(t) + 1 THEN Some(t) ELSE None

\* index of the first token of t from i on that is in set, 0 for none
RECURSIVE FirstIn(_, _, _)
FirstIn(t, i, set) ==
    IF i > Len(t) THEN 0
    ELSE IF t[i] \in set THEN i
    ELSE FirstIn(t, i + 1, set)

\* re.search of a fence pattern: group(1) as an Optional token sequence.
\* i: the first token of t the opening of the pattern matches in; j: the first fence behind i.  The lazy group ends at j.  The
\* pattern without json, matched in a FENCE_JSON token, leaves the word json
\* in the group.
FenceGroup(t, i, j, lead) ==
    IF i = 0 \/ j = 0 THEN None ELSE Some(lead \o SubSeq(t, i + 1, j - 1))

FenceAfter(t, i) == IF i = 0 THEN 0 ELSE FirstIn(t, i + 1, FenceTokens)

JsonFenceAt(t, i) == FenceGroup(t, i, FenceAfter(t, i), <<>>)
JsonFenceMatch(t) == JsonFenceAt(t, FirstIn(t, 1, {"FENCE_JSON"}))

AnyFenceAt(t, i) ==
    FenceGroup(t, i, FenceAfter(t, i),
               IF i # 0 /\ t[i] = "FENCE_JSON" THEN <<"w">> ELSE <<>>)
AnyFenceMatch(t) == AnyFenceAt(t, FirstIn(t, 1, FenceTokens))

\* the group of a match, parsed; None for no match and for a decode error
ParsedGroup(group) == IF group = None THEN None ELSE json_loads(Get(group))

\* strategy 3: the characters are counted, a brace in a string as any other
BraceDelta(token) ==
    IF token \in {"{", "m{"} THEN 1 ELSE IF token \in {"}", "m}"} THEN -1 ELSE 0

\* index of the token whose brace brings the depth back to 0, 0 for none
RECURSIVE BraceEnd(_, _, _)
BraceEnd(t, k, depth) ==
    IF k > Len(t) THEN 0
    ELSE IF BraceDelta(t[k]) = -1 /\ depth = 1 THEN k
    ELSE BraceEnd(t, k + 1, depth + BraceDelta(t[k]))

\* text[start_idx:end_idx + 1], parsed: a span that starts or ends at a
\* brace inside a string is no JSON
BraceSpan(t, start, end) ==
    IF start = 0 \/ end = 0 THEN None
    ELSE IF t[start] # "{" \/ t[end] # "}" THEN None
    ELSE json_loads(SubSeq(t, start, end))

BraceSpanFrom(t, start) ==
    BraceSpan(t, start, IF start = 0 THEN 0 ELSE BraceEnd(t, start, 0))

ByBraces(t) == BraceSpanFrom(t, FirstIn(t, 1, {"{", "m{"}))

\* each strategy is tried when the ones before it gave nothing
OrElse(first, second) == IF first # None THEN first ELSE second

\* VisionService.extract_json_from_text
extract_json_from_text(text) ==
    IF text = <<>> THEN None
    ELSE OrElse(json_loads(text),
             OrElse(ParsedGroup(JsonFenceMatch(text)),
                 OrElse(ParsedGroup(AnyFenceMatch(text)), ByBraces(text))))

\* ---------------------------------------------------------- language model
\* What structured_llm.invoke gives for one call: it raises, or returns a
\* LabReportExtractionSchema (names and values are validated, never null).
LlmRaise == [raised |-> TRUE, report_type |-> "OTHER", lab_name |-> None, biomarkers |-> <<>>]

LlmOk(type, lab, bios) ==
    [raised |-> FALSE, report_type |-> type, lab_name |-> lab, biomarkers |-> bios]

LlmResults ==
    { LlmRaise,
      LlmOk("OTHER", None, <<>>),
      LlmOk("CBC", Some("Aster"), <<HgbNormal>>) }

\* a report with two measurements of one biomarker
LlmTwoReadings == LlmOk("CBC", None, <<HgbNormal, HgbLow>>)

\* ------------------------------------------------------------- trend maths
\* A float that is a quotient is kept as the pair [num, den], den > 0.
Ratio(n, d) == [num |-> n, den |-> d]
RatioGt(r, k) == r.num > k * r.den
RatioLt(r, k) == r.num < k * r.den

RECURSIVE SumSeq(_)
SumSeq(s) == IF s = <<>> THEN 0 ELSE s[1] + SumSeq(Tail(s))

MinSeq(s) == CHOOSE x \in {s[i] : i \in 1..Len(s)} : \A j \in 1..Len(s) : x <= s[j]
MaxSeq(s) == CHOOSE x \in {s[i] : i \in 1..Len(s)} : \A j \in 1..Len(s) : x >= s[j]

Values(readings) == [i \in 1..Len(readings) |-> readings[i].value]

\* list.append followed by the stable list.sort(key=lambda r: r.date): the
\* new reading goes behind every reading whose date is not later than its own
AppendSorted(readings, r) ==
    LET k == Cardinality({i \in 1..Len(readings) : readings[i].date <= r.date})
    IN  SubSeq(readings, 1, k) \o <<r>> \o SubSeq(readings, k + 1, Len(readings))

TrendThreshold == 5

\* BiomarkerTrend.add_reading
add_reading(trend, reading) ==
    LET rs == AppendSorted(trend.readings, reading)
        values == Values(rs)
        first_value == values[1]
        last_value == values[Len(values)]
        pct == Ratio((last_value - first_value) * 100, first_value)
        recompute == Len(values) >= 2 /\ first_value # 0
    IN  [trend EXCEPT
            !.readings = rs,
            !.latest_value = reading.value,
            !.latest_date = reading.date,
            !.latest_flag = reading.flag,
            !.min_value = MinSeq(values),
            !.max_value = MaxSeq(values),
            !.average_value = Ratio(SumSeq(values), Len(values)),
            !.reading_count = Len(rs),
            !.trend_percent = IF recompute THEN pct ELSE @,
            !.trend_direction =
                IF ~recompute THEN @
                ELSE IF RatioGt(pct, TrendThreshold) THEN "increasing"
                ELSE IF RatioLt(pct, -TrendThreshold) THEN "decreasing"
                ELSE "stable"]

\* the existing-trend branch of update_biomarker_trend (image path)
UpdateExistingTrend(trend, reading) ==
    LET rs == AppendSorted(trend.readings, reading)
        values == Values(rs)
        n == Len(values)
        change == values[n] - values[n - 1]
    IN  [trend EXCEPT
            !.readings = rs,
            !.latest_value = reading.value,
            !.latest_date = reading.date,
            !.latest_flag = reading.flag,
            !.reading_count = n,
            !.min_value = MinSeq(values),
            !.max_value = MaxSeq(values),
            !.average_value = Ratio(SumSeq(values), n),
            !.trend_percent =
                IF n >= 2
                THEN (IF values[n - 1] # 0 THEN Ratio(change * 100, values[n - 1])
                      ELSE Ratio(0, 1))
                ELSE @,
            !.trend_direction =
                IF n >= 2
                THEN (IF change > 0 THEN "increasing"
                      ELSE IF change < 0 THEN "decreasing" ELSE "stable")
                ELSE @]

\* a BiomarkerTrend document holding one reading, with the field defaults
\* trend_direction = "stable" and trend_percent = 0.0
NewTrend(patient_id, bm, reading) ==
    [patient_id |-> patient_id,
     biomarker_name |-> bm.standardized_name,
     category |-> bm.category,
     readings |-> <<reading>>,
     latest_value |-> reading.value,
     latest_date |-> reading.date,
     latest_flag |-> bm.flag,
     trend_direction |-> "stable",
     trend_percent |-> Ratio(0, 1),
     min_value |-> reading.value,
     max_value |-> reading.value,
     average_value |-> Ratio(reading.value, 1),
     reading_count |-> 1]

\* ---------------------------------------------------------------- database
\* The three collections, each in insertion order.
EmptyDb == [reports |-> <<>>, biomarkers |-> <<>>, trends |-> <<>>]

\* BiomarkerTrend.find_one: index of the first match, 0 when there is none
FindTrend(d, patient_id, name) ==
    LET hits == {i \in 1..Len(d.trends) :
                    /\ d.trends[i].patient_id = patient_id
                    /\ d.trends[i].biomarker_name = name}
    IN  IF hits = {} THEN 0 ELSE CHOOSE i \in hits : \A j \in hits : i <= j

\* the readings held by all the trend documents
RECURSIVE ReadingCount(_)
ReadingCount(trends) ==
    IF trends = <<>> THEN 0 ELSE Len(trends[1].readings) + ReadingCount(Tail(trends))

\* pydantic validation of Biomarker(...): name, value are required, not null
BiomarkerValid(bm) == ~IsNone(bm.name) /\ ~IsNone(bm.value)

BiomarkerRow(patient_id, report_id, bm, day) ==
    [patient_id |-> patient_id, report_id |-> report_id,
     name |-> Get(bm.name), standardized_name |-> bm.standardized_name,
     category |-> bm.category, value |-> Get(bm.value),
     reference_min |-> bm.reference_min, reference_max |-> bm.reference_max,
     flag |-> bm.flag, is_abnormal |-> bm.is_abnormal, test_date |-> day]

Reading(report_id, bm, day) ==
    [date |-> day, value |-> Get(bm.value), flag |-> bm.flag, report_id |-> report_id]

LabReportDoc(id, patient_id, thread_id, day, lab_name, report_type) ==
    [id |-> id, patient_id |-> patient_id, thread_id |-> thread_id,
     report_date |-> day, lab_name |-> lab_name, report_type |-> report_type,
     status |-> "completed"]

\* ----------------------------------------------------------- workflow state
\* LabExtractionState as process_lab_report builds it (initial_state).  The
\* key user_provided_date is no channel of the state schema and is dropped.
\* pdf_path stands for the uploaded file; extracted_text, extracted_tables
\* and image_paths are kept as their lengths, combined_data as the sequence
\* of the sections it holds, vision_data = {} as None.
InitialState(doc, patient_id, thread_id, report_date, pdf_password) ==
    [pdf_path |-> doc,
     patient_id |-> patient_id,
     thread_id |-> thread_id,
     report_date |-> report_date,
     is_encrypted |-> FALSE,
     password |-> pdf_password,
     decrypt_error |-> None,
     extracted_text |-> 0,
     extracted_tables |-> 0,
     needs_vision |-> FALSE,
     image_paths |-> 0,
     vision_data |-> None,
     combined_data |-> <<>>,
     report_type |-> "OTHER",
     lab_name |-> None,
     biomarkers |-> <<>>,
     report_id |-> None,
     status |-> "processing",
     errors |-> <<>>]

\* the errors channel is Annotated[List[str], add]: an update appends to it
AddErrors(st, errs) == [st EXCEPT !.errors = @ \o errs]

\* A node's effect: the state with its update merged in, the database, and
\* how the node ended: "ok", "interrupt" (GraphInterrupt) or "raise".
Ok(st, d) == [st |-> st, db |-> d, out |-> "ok"]
Interrupted(st, d) == [st |-> st, db |-> d, out |-> "interrupt"]
Raised(st, d) == [st |-> st, db |-> d, out |-> "raise"]

\* The handler has written the upload to pdf_path before the graph runs and
\* nothing removes it, so os.path.exists(pdf_path) holds.
receive_upload(st, d) ==
    IF PDF_get_page_count(st.pdf_path) = 0
    THEN Ok(AddErrors([st EXCEPT !.status = "failed"],
                      <<"Invalid PDF file or no pages found">>), d)
    ELSE Ok([st EXCEPT !.status = "processing"], d)

check_encryption(st, d) ==
    Ok([st EXCEPT !.is_encrypted = PDF_check_encryption(st.pdf_path)], d)

\* a request_password that never suspends: interrupt() returns at once
request_password_Proceeds(st, d, resume) ==
    Ok([st EXCEPT !.password = resume, !.status = "processing"], d)

\* interrupt(...) returns the resume value of a Command(resume=...) when the
\* run was started with one, and raises GraphInterrupt otherwise.
request_password(st, d, resume) ==
    IF IsNone(resume) THEN Interrupted(st, d)
    ELSE Ok([st EXCEPT !.password = resume, !.status = "processing"], d)

decrypt_pdf(st, d) ==
    IF ~Truthy(st.password)
    THEN Ok([st EXCEPT !.decrypt_error = Some("No password provided"),
                       !.status = "waiting_password"], d)
    ELSE LET r == PDF_decrypt_pdf(st.pdf_path, Get(st.password))
         IN  IF r[1] THEN Ok([st EXCEPT !.decrypt_error = None], d)
             ELSE Ok(AddErrors([st EXCEPT !.decrypt_error = r[2]],
                               <<"Decryption failed">>), d)

MinTextChars == 100

extract_text(st, d) ==
    LET text == PDF_extract_text(st.pdf_path, st.password)
        tables == PDF_extract_tables(st.pdf_path, st.password)
        needs_vision == \/ text < MinTextChars
                        \/ PDF_has_images_or_scanned(st.pdf_path, st.password)
    IN  Ok([st EXCEPT !.extracted_text = text,
                      !.extracted_tables = tables,
                      !.needs_vision = needs_vision], d)

\* pages: the vision model's response for each page image of this run
vision_extraction(st, d, pages) ==
    IF ~st.needs_vision THEN Ok([st EXCEPT !.vision_data = None], d)
    ELSE LET n == PDF_pdf_to_images(st.pdf_path, st.password)
             m == extract_from_multiple_images(SubSeq(pages, 1, n))
         IN  IF n = 0
             THEN Ok(AddErrors([st EXCEPT !.vision_data = None, !.image_paths = 0],
                               <<"Failed to convert PDF to images">>), d)
             ELSE IF m.raised THEN Raised(st, d)
             ELSE Ok([st EXCEPT !.vision_data = Some(m.value), !.image_paths = n], d)

VisionBiomarkers(st) ==
    IF IsNone(st.vision_data) THEN <<>> ELSE Get(st.vision_data).biomarkers

collect_data(st, d) ==
    LET text == IF st.extracted_text > 0 THEN <<"TEXT">> ELSE <<>>
        tables == IF st.extracted_tables > 0 THEN <<"TABLES">> ELSE <<>>
        vision == IF VisionBiomarkers(st) # <<>> THEN <<"VISION">> ELSE <<>>
    IN  Ok([st EXCEPT !.combined_data = text \o tables \o vision], d)

\* an entry of state["biomarkers"]
Standardized(bio, std_name, flag, is_abnormal) ==
    [name |-> bio.name,
     standardized_name |-> std_name,
     category |-> get_biomarker_category(std_name),
     value |-> bio.value,
     reference_min |-> bio.reference_min,
     reference_max |-> bio.reference_max,
     flag |-> flag,
     is_abnormal |-> is_abnormal]

StdName(bio) == standardize_biomarker_name(Get(bio.name))

\* get_flag(std_name, value) as standardize_agent calls it: no explicit
\* bounds, no gender
CatalogFlag(bio) == get_flag(StdName(bio), Get(bio.value), None, None, None)

\* the vision branch is outside the try block: name.lower() on a null name
\* raises, and so does value < ref_min on a null value when the catalog has
\* a range for the name; a null value of an unknown name passes through
VisionBioRaises(bio) ==
    \/ IsNone(bio.name)
    \/ /\ IsNone(bio.value)
       /\ get_reference_range(StdName(bio), None)[1] # None

\* flag: what get_flag gave; the entry carries flag or bio.get("flag")
VisionEntry(bio, flag) ==
    Standardized(bio, StdName(bio),
                 IF flag # None THEN flag ELSE bio.flag,
                 flag # None \/ bio.flag # None)

StandardizeVisionBio(bio) ==
    VisionEntry(bio, IF IsNone(bio.value) THEN None ELSE CatalogFlag(bio))

LlmEntry(bio, flag) == Standardized(bio, StdName(bio), flag, flag # None)

StandardizeLlmBio(bio) == LlmEntry(bio, CatalogFlag(bio))

\* llm: what the language model call of this run gives
standardize_agent(st, d, llm) ==
    IF st.combined_data = <<>>
    THEN Ok(AddErrors([st EXCEPT !.status = "failed", !.biomarkers = <<>>,
                                 !.report_type = "OTHER"],
                      <<"No data to process">>), d)
    ELSE IF VisionBiomarkers(st) # <<>>
    THEN LET bios == VisionBiomarkers(st)
         IN  IF \E i \in 1..Len(bios) : VisionBioRaises(bios[i])
             THEN Raised(st, d)
             ELSE Ok([st EXCEPT
                        !.biomarkers = [i \in 1..Len(bios) |-> StandardizeVisionBio(bios[i])],
                        !.report_type = Get(st.vision_data).report_type,
                        !.lab_name = Get(st.vision_data).lab_name], d)
    ELSE IF llm.raised
    THEN Ok(AddErrors([st EXCEPT !.biomarkers = <<>>, !.report_type = "OTHER"],
                      <<"Agent extraction failed">>), d)
    ELSE Ok([st EXCEPT
               !.biomarkers = [i \in 1..Len(llm.biomarkers) |->
                                  StandardizeLlmBio(llm.biomarkers[i])],
               !.report_type = llm.report_type,
               !.lab_name = llm.lab_name], d)

\* The keyword arguments save_results passes to BiomarkerTrend(...), and the
\* fields of the document that have no default.
SaveResultsTrendArgs ==
    {"patient_id", "biomarker_name", "category", "readings", "latest_value",
     "latest_unit", "latest_date", "latest_flag", "min_value", "max_value",
     "average_value", "reading_count"}

TrendRequiredFields ==
    {"patient_id", "clinic_id", "biomarker_name", "category", "latest_value",
     "latest_unit", "latest_date", "min_value", "max_value", "average_value"}

\* str(e) of the exception save_results catches: a document that cannot be
\* built (pydantic), a date that cannot be parsed, a write the database refuses
ValidationError == "Failed to save results: validation error"
WriteError == "Failed to save results: write failed"

\* The writes of one save_results call are numbered in the order they are
\* awaited: 1 is lab_report.insert(), 2 * i is biomarker.insert() of entry i,
\* 2 * i + 1 is trend.save() or trend.insert() of entry i.
\* The loop of save_results over state["biomarkers"], from entry i on:
\* [db, error].  Each insert is committed when it is made; an exception
\* leaves the loop with the earlier writes in place.  fails: the number of
\* the write the database refuses in this call, 0 for none.
RECURSIVE SaveBiomarkers(_, _, _, _, _, _, _)
SaveBiomarkers(bios, i, d, patient_id, report_id, day, fails) ==
    IF i > Len(bios) THEN [db |-> d, error |-> None]
    ELSE IF ~BiomarkerValid(bios[i]) THEN [db |-> d, error |-> Some(ValidationError)]
    ELSE IF fails = 2 * i THEN [db |-> d, error |-> Some(WriteError)]
    ELSE LET bm == bios[i]
             d1 == [d EXCEPT !.biomarkers =
                        Append(@, BiomarkerRow(patient_id, report_id, bm, day))]
             k == FindTrend(d1, patient_id, bm.standardized_name)
             reading == Reading(report_id, bm, day)
         IN  IF k # 0
             THEN IF fails = 2 * i + 1 THEN [db |-> d1, error |-> Some(WriteError)]
                  ELSE SaveBiomarkers(bios, i + 1,
                           [d1 EXCEPT !.trends[k] = add_reading(@, reading)],
                           patient_id, report_id, day, fails)
             ELSE IF ~(TrendRequiredFields \subseteq SaveResultsTrendArgs)
             THEN [db |-> d1, error |-> Some(ValidationError)]
             ELSE IF fails = 2 * i + 1 THEN [db |-> d1, error |-> Some(WriteError)]
             ELSE SaveBiomarkers(bios, i + 1,
                      [d1 EXCEPT !.trends = Append(@, NewTrend(patient_id, bm, reading))],
                      patient_id, report_id, day, fails)

\* SaveFailed, but the status is left as the earlier nodes set it
SaveFailed_KeepsStatus(st, d, error) == Ok(AddErrors(st, <<error>>), d)

\* the except branch of save_results
SaveFailed(st, d, error) ==
    Ok(AddErrors([st EXCEPT !.status = "failed"], <<error>>), d)

\* r: what the loop over the biomarkers gave
SaveEnded(st, report_id, r) ==
    IF r.error # None THEN SaveFailed(st, r.db, Get(r.error))
    ELSE Ok([st EXCEPT !.report_id = Some(report_id), !.status = "completed"], r.db)

\* the try block from lab_report.insert() on
SaveReport(st, d, day, report_id, fails) ==
    IF fails = 1 THEN SaveFailed(st, d, WriteError)
    ELSE SaveEnded(st, report_id,
             SaveBiomarkers(st.biomarkers, 1,
                 [d EXCEPT !.reports =
                     Append(@, LabReportDoc(report_id, st.patient_id, st.thread_id,
                                            day, st.lab_name, st.report_type))],
                 st.patient_id, report_id, day, fails))

\* now: datetime.utcnow() of this run; fails: the write the database refuses
save_results(st, d, now, fails) ==
    IF st.report_date # None /\ ~Get(st.report_date).valid
    THEN SaveFailed(st, d, ValidationError)
    ELSE SaveReport(st, d,
                    IF st.report_date # None THEN Get(st.report_date).day ELSE now,
                    Len(d.reports) + 1, fails)

\* ------------------------------------------------------------------ routing
route_after_encryption_check(st) ==
    IF st.is_encrypted THEN "request_password" ELSE "extract_text"

route_after_decrypt(st) ==
    IF Truthy(st.decrypt_error) THEN "request_password" ELSE "extract_text"

route_after_extract(st) ==
    IF st.needs_vision THEN "vision_extraction" ELSE "collect_data"

\* ---------------------------------------------------------------- graph run
\* env: what the collaborators give during one run: pages (the vision
\* model's response per page image), llm (the language model's response),
\* now (utcnow), db_fails (the write of save_results the database refuses).
ApplyNode(node, st, d, resume, env) ==
    CASE node = "receive_upload" -> receive_upload(st, d)
      [] node = "check_encryption" -> check_encryption(st, d)
      [] node = "request_password" -> request_password(st, d, resume)
      [] node = "decrypt_pdf" -> decrypt_pdf(st, d)
      [] node = "extract_text" -> extract_text(st, d)
      [] node = "vision_extraction" -> vision_extraction(st, d, env.pages)
      [] node = "collect_data" -> collect_data(st, d)
      [] node = "standardize_agent" -> standardize_agent(st, d, env.llm)
      [] node = "save_results" -> save_results(st, d, env.now, env.db_fails)

\* the edges of build_lab_extraction_graph
NextNode(node, st) ==
    CASE node = "receive_upload" -> "check_encryption"
      [] node = "check_encryption" -> route_after_encryption_check(st)
      [] node = "request_password" -> "decrypt_pdf"
      [] node = "decrypt_pdf" -> route_after_decrypt(st)
      [] node = "extract_text" -> route_after_extract(st)
      [] node = "vision_extraction" -> "collect_data"
      [] node = "collect_data" -> "standardize_agent"
      [] node = "standardize_agent" -> "save_results"
      [] node = "save_results" -> "END"

\* One run of the compiled graph from `node` on: [st, db, out, ran].  out is
\* "end", "interrupt" or "raise"; ran lists the nodes that were started.  A
\* node that is interrupted or raises writes nothing to the state.  The
\* resume value is handed to the first interrupt() only.
RECURSIVE RunFrom(_, _, _, _, _, _)

\* r: what the node gave on st; ran: the nodes started, this one included
RunStep(node, st, r, resume, env, ran) ==
    IF r.out # "ok"
    THEN [st |-> st, db |-> r.db, out |-> r.out, ran |-> ran]
    ELSE RunFrom(NextNode(node, r.st), r.st, r.db,
                 IF node = "request_password" THEN None ELSE resume,
                 env, ran)

RunFrom(node, st, d, resume, env, ran) ==
    IF node = "END" THEN [st |-> st, db |-> d, out |-> "end", ran |-> ran]
    ELSE RunStep(node, st, ApplyNode(node, st, d, resume, env), resume, env,
                 Append(ran, node))

\* lab_extraction_graph.ainvoke(input, config) with a plain dict as input:
\* the input is written to the channels of the thread's checkpoint and the
\* graph runs from START; pending interrupts of the checkpoint are dropped
\* (only Command(resume=...) resumes one), so interrupt() gets no value.
\* A GraphInterrupt ends the run without an exception: ainvoke returns the
\* channel values of the last completed step.  st0 is the checkpointed
\* state with the input merged in.
ainvoke(st0, d, env) == RunFrom("receive_upload", st0, d, None, env, <<>>)

\* the collaborators a run consults, read off a probe run of the same input
VisionConsulted(r) ==
    /\ \E i \in 1..Len(r.ran) : r.ran[i] = "vision_extraction"
    /\ r.st.needs_vision
    /\ PDF_pdf_to_images(r.st.pdf_path, r.st.password) > 0

LlmConsulted(r) ==
    /\ \E i \in 1..Len(r.ran) : r.ran[i] = "standardize_agent"
    /\ r.st.combined_data # <<>>
    /\ VisionBiomarkers(r.st) = <<>>

ErrorPages(n) == [i \in 1..n |-> VisionError]

\* ---------------------------------------------------------------- responses
\* What the caller gets: a ProcessResponse (result = None is total = None)
\* or an HTTPException.
Response(status, thread_id, report_id, total) ==
    [kind |-> "response", code |-> 200, status |-> status, thread_id |-> thread_id,
     report_id |-> report_id, total |-> total]

HttpError(code, thread_id) ==
    [kind |-> "http_error", code |-> code, status |-> "none", thread_id |-> thread_id,
     report_id |-> None, total |-> None]

Completed(st) == Response("completed", st.thread_id, st.report_id, Some(Len(st.biomarkers)))

\* SubmitResponse, but an empty biomarker list is answered "failed"
SubmitResponse_EmptyFails(st) ==
    IF st.status = "waiting_password"
    THEN Response("waiting_password", st.thread_id, None, None)
    ELSE IF st.status = "waiting_date"
    THEN Response("waiting_date", st.thread_id, None, None)
    ELSE IF st.errors # <<>> \/ st.biomarkers = <<>>
    THEN Response("failed", st.thread_id, None, None)
    ELSE Completed(st)

\* the status checks of process_lab_report on the values ainvoke returned
SubmitResponse(st) ==
    IF st.status = "waiting_password"
    THEN Response("waiting_password", st.thread_id, None, None)
    ELSE IF st.status = "waiting_date"
    THEN Response("waiting_date", st.thread_id, None, None)
    ELSE IF st.errors # <<>>
    THEN Response("failed", st.thread_id, None, None)
    ELSE Completed(st)

\* those of resume_with_password
ResumePasswordResponse(st) ==
    IF Truthy(st.decrypt_error)
    THEN Response("waiting_password", st.thread_id, None, None)
    ELSE IF st.errors # <<>>
    THEN Response("failed", st.thread_id, None, None)
    ELSE Completed(st)

\* those of resume_with_date
ResumeDateResponse(st) ==
    IF st.errors # <<>>
    THEN Response("failed", st.thread_id, None, None)
    ELSE Completed(st)

\* --------------------------------------------------------------- image path
\* the loop of process_image_report over vision_result["biomarkers"]
ImageEntry(item, std, range, flag) ==
    [name |-> item.name,
     standardized_name |-> std,
     category |-> get_biomarker_category(std),
     value |-> item.value,
     reference_min |-> range[1],
     reference_max |-> range[2],
     flag |-> flag,
     is_abnormal |-> flag # None]

\* looked: what get_reference_range gave; a bound of the vision item wins
ImageRange(item, looked) ==
    <<IF item.reference_min # None THEN item.reference_min ELSE looked[1],
      IF item.reference_max # None THEN item.reference_max ELSE looked[2]>>

ImageFlagged(item, std, range) ==
    ImageEntry(item, std, range, get_flag(std, Get(item.value), range[1], range[2], None))

\* get_reference_range is handed the string "min-max" as its gender when
\* the item has a truthy reference_min
ImageBiomarker(item) ==
    ImageFlagged(item, StdName(item),
        ImageRange(item,
            get_reference_range(StdName(item),
                IF item.reference_min # None /\ Get(item.reference_min) # 0
                THEN Some("min-max") ELSE None)))

RECURSIVE ImageBiomarkers(_)
ImageBiomarkers(items) ==
    IF items = <<>> THEN <<>>
    ELSE IF ~Truthy(items[1].name) \/ IsNone(items[1].value)
    THEN ImageBiomarkers(Tail(items))
    ELSE <<ImageBiomarker(items[1])>> \o ImageBiomarkers(Tail(items))

\* update_biomarker_trend
TrendUpdated(d, k, patient_id, bm, new_reading) ==
    IF k # 0
    THEN [d EXCEPT !.trends[k] = UpdateExistingTrend(@, new_reading)]
    ELSE [d EXCEPT !.trends = Append(@, NewTrend(patient_id, bm, new_reading))]

update_biomarker_trend(d, patient_id, report_id, bm, day) ==
    TrendUpdated(d, FindTrend(d, patient_id, bm.standardized_name), patient_id, bm,
                 Reading(report_id, bm, day))

RECURSIVE SaveImageBiomarkers(_, _, _, _, _, _)
SaveImageBiomarkers(bms, i, d, patient_id, report_id, day) ==
    IF i > Len(bms) THEN d
    ELSE SaveImageBiomarkers(bms, i + 1,
            update_biomarker_trend(
                [d EXCEPT !.biomarkers =
                    Append(@, BiomarkerRow(patient_id, report_id, bms[i], day))],
                patient_id, report_id, bms[i], day),
            patient_id, report_id, day)

\* the workflow_store entry of an image that waits for its date
ImageWaiting(patient_id, vision_result) ==
    [status |-> "waiting_date", patient_id |-> patient_id,
     vision_result |-> vision_result]

\* process_image_report: [resp, db, store]; store is the entry the call
\* writes to workflow_store[thread_id], None when it writes none.
\* vision_result: what extract_from_image gives in this call.
ImageSaved(d, patient_id, thread_id, report_id, day, vision_result, biomarkers) ==
    [resp |-> Response("completed", thread_id, Some(report_id), Some(Len(biomarkers))),
     db |-> SaveImageBiomarkers(biomarkers, 1,
               [d EXCEPT !.reports =
                   Append(@, LabReportDoc(report_id, patient_id, thread_id, day,
                                          vision_result.lab_name,
                                          IF vision_result.report_type # None
                                          THEN Get(vision_result.report_type)
                                          ELSE "OTHER"))],
               patient_id, report_id, day),
     store |-> None]

\* final_date: report_date or vision_result.get("report_date")
ImageWithDate(d, patient_id, thread_id, final_date, vision_result) ==
    IF final_date = None
    THEN [resp |-> Response("waiting_date", thread_id, None, None), db |-> d,
          store |-> Some(ImageWaiting(patient_id, vision_result))]
    ELSE IF ~Get(final_date).valid
    THEN [resp |-> Response("failed", thread_id, None, None), db |-> d, store |-> None]
    ELSE ImageSaved(d, patient_id, thread_id, Len(d.reports) + 1, Get(final_date).day,
                    vision_result, ImageBiomarkers(vision_result.biomarkers))

process_image_report(d, patient_id, thread_id, report_date, vision_result) ==
    IF vision_result.error
    THEN [resp |-> Response("failed", thread_id, None, None), db |-> d, store |-> None]
    ELSE ImageWithDate(d, patient_id, thread_id,
                       IF report_date # None THEN report_date
                       ELSE vision_result.report_date,
                       vision_result)

\* -------------------------------------------------------------------- state
VARIABLES
    threads,         \* number of thread ids handed out by process_lab_report
    calls,           \* number of requests made
    checkpoints,     \* the MemorySaver: thread id -> Optional channel values
    workflow_store,  \* the module-level dict of process.py
    db,              \* the lab_reports, biomarkers, biomarker_trends collections
    runs,            \* thread id -> node -> how often the node was started
    last,            \* the last request and what the caller got
    tasks,           \* the persist loops in flight between two of their awaits
    applied          \* a call of a module-level function, and what it returned

vars ==
    <<threads, calls, checkpoints, workflow_store, db, runs, last, tasks, applied>>

ThreadIds == 1..MaxCalls
Patients == {"p1"}
Passwords == {"good", "bad"}
Now == 3

NodeNames ==
    {"receive_upload", "check_encryption", "request_password", "decrypt_pdf",
     "extract_text", "vision_extraction", "collect_data", "standardize_agent",
     "save_results", "extract_from_image"}

SubmitDates == {None, Some(Date(1))}

\* the PDF submissions explored: <<file, report_date, pdf_password>>
PdfSubmissions ==
    { <<CorruptPdf, None, None>>,
      <<EncryptedPdf, None, None>>,
      <<EncryptedPdf, None, Some("good")>>,
      <<TextPdf, None, None>>,
      <<TextPdf, Some(Date(1)), None>>,
      <<ScannedPdf, None, None>> }

Count(ran, node) == Cardinality({i \in 1..Len(ran) : ran[i] = node})

Started(rs, tid, ran) ==
    [rs EXCEPT ![tid] = [n \in NodeNames |-> @[n] + Count(ran, n)]]

NoEnv == [pages |-> <<>>, llm |-> LlmRaise, now |-> Now, db_fails |-> 0]
ImageEnv(vision_result) ==
    [pages |-> <<vision_result>>, llm |-> LlmRaise, now |-> Now, db_fails |-> 0]

\* a request: the handler, the thread id, what the caller got, the nodes the
\* request started, the password and the report date it carried, what the
\* collaborators gave
Call(op, tid, resp, ran, password, report_date, env) ==
    [op |-> op, thread_id |-> tid, resp |-> resp, ran |-> ran, password |-> password,
     report_date |-> report_date, env |-> env]

\* the router after start-up, before any request
NoRequests ==
    /\ threads = 0
    /\ calls = 0
    /\ checkpoints = [t \in ThreadIds |-> None]
    /\ workflow_store = [t \in ThreadIds |-> None]
    /\ runs = [t \in ThreadIds |-> [n \in NodeNames |-> 0]]
    /\ last = Call("none", 0, HttpError(0, 0), <<>>, None, None, NoEnv)

\* no function call is observed
NotApplied == [fn |-> "none", args |-> <<>>, done |-> TRUE, result |-> None]

Init ==
    /\ NoRequests
    /\ db = EmptyDb
    /\ tasks = <<>>
    /\ applied = NotApplied

\* every response of the collaborators for a document of n pages
\* the writes of one save_results call that the database may refuse
DbFailures == 0..5

\* the collaborators of a request: what the language model may answer and
\* which write the database may refuse
Reliable == [llms |-> LlmResults, failures |-> {0}]
Refusing == [llms |-> LlmResults \cup {LlmTwoReadings}, failures |-> DbFailures]

Envs(n, world) ==
    {[pages |-> pg, llm |-> l, now |-> Now, db_fails |-> f] :
        pg \in PageResults(n), l \in world.llms, f \in world.failures}

\* the run r ended in the except branch of save_results on a refused write
WriteRefused(r) ==
    /\ \E i \in 1..Len(r.ran) : r.ran[i] = "save_results"
    /\ r.st.status # "completed"
    /\ r.st.errors # <<>>
    /\ r.st.errors[Len(r.st.errors)] = WriteError

\* a collaborator the run r did not consult has its fixed response in env
Canonical(env, r) ==
    /\ VisionConsulted(r) \/ env.pages = ErrorPages(Len(env.pages))
    /\ LlmConsulted(r) \/ env.llm = LlmRaise
    /\ WriteRefused(r) \/ env.db_fails = 0

\* the status checks of the handler op on the values ainvoke returned
HandlerResponse(op, st) ==
    CASE op = "submit" -> SubmitResponse(st)
      [] op = "resume_password" -> ResumePasswordResponse(st)
      [] op = "resume_date" -> ResumeDateResponse(st)

\* what a handler does with the outcome r of its ainvoke call: an exception
\* becomes HTTPException(500), anything else is stored and answered
GraphCallEffect(op, tid, r, password, report_date, env) ==
    /\ Canonical(env, r)
    /\ UNCHANGED <<tasks, applied>>
    /\ checkpoints' = [checkpoints EXCEPT ![tid] = Some(r.st)]
    /\ db' = r.db
    /\ runs' = Started(runs, tid, r.ran)
    /\ IF r.out = "raise"
       THEN /\ workflow_store' = workflow_store
            /\ last' = Call(op, tid, HttpError(500, tid), r.ran, password,
                            report_date, env)
       ELSE /\ workflow_store' = [workflow_store EXCEPT ![tid] = Some(r.st)]
            /\ last' = Call(op, tid, HandlerResponse(op, r.st), r.ran, password,
                            report_date, env)

\* st0: the checkpointed state of the thread with the input merged in
GraphCall(op, tid, st0, password, report_date, world) ==
    \E env \in Envs(st0.pdf_path.pages, world) :
        GraphCallEffect(op, tid, ainvoke(st0, db, env), password, report_date, env)

\* what a handler does with the outcome r of process_image_report
ImageCallEffect(op, tid, r, report_date, vision_result) ==
    /\ db' = r.db
    /\ workflow_store' =
          IF r.store # None THEN [workflow_store EXCEPT ![tid] = r.store]
          ELSE workflow_store
    /\ runs' = Started(runs, tid, <<"extract_from_image">>)
    /\ last' = Call(op, tid, r.resp, <<"extract_from_image">>, None, report_date,
                    ImageEnv(vision_result))
    /\ UNCHANGED <<checkpoints, tasks, applied>>

\* process_lab_report, PDF branch
SubmitPdfWith(world) ==
    /\ calls < MaxCalls
    /\ calls' = calls + 1
    /\ threads' = threads + 1
    /\ \E sub \in PdfSubmissions, patient_id \in Patients :
          GraphCall("submit", threads + 1,
                    InitialState(sub[1], patient_id, threads + 1, sub[2], sub[3]),
                    sub[3], sub[2], world)

\* with a database that accepts every write
SubmitPdf == SubmitPdfWith(Reliable)

\* process_lab_report, image branch
SubmitImage ==
    /\ calls < MaxCalls
    /\ calls' = calls + 1
    /\ threads' = threads + 1
    /\ \E patient_id \in Patients, report_date \in SubmitDates,
          vision_result \in VisionResults :
          ImageCallEffect("submit_image", threads + 1,
              process_image_report(db, patient_id, threads + 1, report_date,
                                   vision_result),
              report_date, vision_result)

\* resume_with_password
ResumeWithPasswordWith(world) ==
    /\ calls < MaxCalls
    /\ calls' = calls + 1
    /\ UNCHANGED threads
    /\ \E tid \in 1..threads, password \in Passwords :
        IF workflow_store[tid] = None
        THEN /\ last' = Call("resume_password", tid, HttpError(404, tid), <<>>,
                             Some(password), None, NoEnv)
             /\ UNCHANGED <<checkpoints, workflow_store, db, runs, tasks, applied>>
        ELSE IF checkpoints[tid] = None
        THEN \* the thread has no checkpoint: receive_upload reads
             \* state["patient_id"] of a state that holds the password only
             /\ last' = Call("resume_password", tid, HttpError(500, tid),
                             <<"receive_upload">>, Some(password), None, NoEnv)
             /\ runs' = Started(runs, tid, <<"receive_upload">>)
             /\ UNCHANGED <<checkpoints, workflow_store, db, tasks, applied>>
        ELSE GraphCall("resume_password", tid,
                       [Get(checkpoints[tid]) EXCEPT !.password = Some(password)],
                       Some(password), None, world)

ResumeWithPassword == ResumeWithPasswordWith(Reliable)

\* resume_with_date
ResumeWithDate ==
    /\ calls < MaxCalls
    /\ calls' = calls + 1
    /\ UNCHANGED threads
    /\ \E tid \in 1..threads, report_date \in {Date(2), BadDate} :
        IF workflow_store[tid] = None
        THEN /\ last' = Call("resume_date", tid, HttpError(404, tid), <<>>, None,
                             Some(report_date), NoEnv)
             /\ UNCHANGED <<checkpoints, workflow_store, db, runs, tasks, applied>>
        ELSE IF Get(workflow_store[tid]).status # "waiting_date"
        THEN /\ last' = Call("resume_date", tid, HttpError(400, tid), <<>>, None,
                             Some(report_date), NoEnv)
             /\ UNCHANGED <<checkpoints, workflow_store, db, runs, tasks, applied>>
        ELSE IF "vision_result" \in DOMAIN Get(workflow_store[tid])
        THEN \E vision_result \in VisionResults :
               ImageCallEffect("resume_date", tid,
                   process_image_report(db, Get(workflow_store[tid]).patient_id, tid,
                                        Some(report_date), vision_result),
                   Some(report_date), vision_result)
        ELSE GraphCall("resume_date", tid,
                       [Get(checkpoints[tid]) EXCEPT !.report_date = Some(report_date)],
                       None, Some(report_date), Reliable)

\* what get_workflow_status answers from a workflow_store entry
StatusResponse(thread_id, entry) ==
    [kind |-> "status", code |-> 200, thread_id |-> thread_id,
     status |-> IF "status" \in DOMAIN entry THEN entry.status ELSE "unknown",
     errors |-> IF "errors" \in DOMAIN entry THEN entry.errors ELSE <<>>,
     report_id |-> None, total |-> None]

\* get_workflow_status: reads workflow_store, writes nothing
GetStatus ==
    /\ calls < MaxCalls
    /\ calls' = calls + 1
    /\ \E tid \in 1..threads :
          last' = Call("get_status", tid,
                       IF workflow_store[tid] = None THEN HttpError(404, tid)
                       ELSE StatusResponse(tid, Get(workflow_store[tid])),
                       <<>>, None, None, NoEnv)
    /\ UNCHANGED <<threads, checkpoints, workflow_store, db, runs, tasks, applied>>

Next ==
    \/ SubmitPdf
    \/ SubmitImage
    \/ ResumeWithPassword
    \/ ResumeWithDate
    \/ GetStatus

Spec == Init /\ [][Next]_vars

\* The same requests with a database that may refuse any one write of a
\* save_results call.
SubmitPdfRefusing == calls < MaxRefusingCalls /\ SubmitPdfWith(Refusing)
ResumeWithPasswordRefusing ==
    calls < MaxRefusingCalls /\ ResumeWithPasswordWith(Refusing)
SubmitImageRefusing == calls < MaxRefusingCalls /\ SubmitImage

NextRefusing ==
    \/ SubmitPdfRefusing
    \/ SubmitImageRefusing
    \/ ResumeWithPasswordRefusing

SpecRefusing == Init /\ [][NextRefusing]_vars

\* ------------------------------------------------- concurrent persistence
\* Two requests whose persist loops run on the one event loop at the same
\* time, each for one biomarker entry of the same patient and the same
\* standardized name.  A loop gives way at each await: after find_one has
\* returned the trend document (a copy of what the collection holds), and
\* after save() or insert() has written it.  Nothing runs between
\* add_reading and the write of save().
TaskIds == 1..2
TaskPaths == {"save_results", "update_biomarker_trend"}
TaskValues == {90, 110}
TaskDays == {1, 2}

TaskEntry(value) ==
    [standardized_name |-> "hemoglobin", category |-> "CBC",
     value |-> Some(value), flag |-> None]

\* a loop that is about to await find_one; its report is 10 + t
NewTask(t, path, value, day) ==
    [path |-> path, bm |-> TaskEntry(value), day |-> day, report_id |-> 10 + t,
     pc |-> "find_one", found |-> 0, trend |-> None]

TaskReading(task) == Reading(task.report_id, task.bm, task.day)

\* the collection holds no trend of the patient, or one with one reading
TrendOfOneReading ==
    NewTrend("p1", TaskEntry(100), Reading(10, TaskEntry(100), 1))

InitConcurrent ==
    /\ NoRequests
    /\ db \in {EmptyDb, [EmptyDb EXCEPT !.trends = <<TrendOfOneReading>>]}
    /\ tasks \in {<<a, b>> :
                     a \in {NewTask(1, p, v, d) :
                               p \in TaskPaths, v \in TaskValues, d \in TaskDays},
                     b \in {NewTask(2, p, v, d) :
                               p \in TaskPaths, v \in TaskValues, d \in TaskDays}}
    /\ applied = NotApplied

Idle ==
    UNCHANGED <<threads, calls, checkpoints, workflow_store, runs, last, applied>>

\* k: what FindTrend gave
Found(t, k) ==
    tasks' = [tasks EXCEPT ![t].found = k,
                           ![t].trend = IF k = 0 THEN None ELSE Some(db.trends[k]),
                           ![t].pc = IF k = 0 THEN "insert" ELSE "save"]

\* trend = await BiomarkerTrend.find_one({...})
FindOne(t) ==
    /\ tasks[t].pc = "find_one"
    /\ Found(t, FindTrend(db, "p1", tasks[t].bm.standardized_name))
    /\ UNCHANGED db
    /\ Idle

\* the document as the loop has changed it
Changed(task) ==
    IF task.path = "save_results"
    THEN add_reading(Get(task.trend), TaskReading(task))
    ELSE UpdateExistingTrend(Get(task.trend), TaskReading(task))

\* if trend: ... await trend.save(): the document of that id is replaced by
\* the copy the loop holds
SaveTrend(t) ==
    /\ tasks[t].pc = "save"
    /\ db' = [db EXCEPT !.trends[tasks[t].found] = Changed(tasks[t])]
    /\ tasks' = [tasks EXCEPT ![t].pc = "done"]
    /\ Idle

\* else: trend = BiomarkerTrend(...); await trend.insert(), in
\* update_biomarker_trend
InsertTrend(t) ==
    /\ tasks[t].pc = "insert"
    /\ tasks[t].path = "update_biomarker_trend"
    /\ db' = [db EXCEPT !.trends =
                  Append(@, NewTrend("p1", tasks[t].bm, TaskReading(tasks[t])))]
    /\ tasks' = [tasks EXCEPT ![t].pc = "done"]
    /\ Idle

\* the same in save_results: BiomarkerTrend(...) raises for the missing
\* clinic_id and the loop ends in the except branch
InsertRaises(t) ==
    /\ tasks[t].pc = "insert"
    /\ tasks[t].path = "save_results"
    /\ ~(TrendRequiredFields \subseteq SaveResultsTrendArgs)
    /\ tasks' = [tasks EXCEPT ![t].pc = "failed"]
    /\ UNCHANGED db
    /\ Idle

NextConcurrent ==
    \/ \E t \in TaskIds : FindOne(t)
    \/ \E t \in TaskIds : SaveTrend(t)
    \/ \E t \in TaskIds : InsertTrend(t)
    \/ \E t \in TaskIds : InsertRaises(t)

SpecConcurrent == InitConcurrent /\ [][NextConcurrent]_vars

\* ------------------------------------------------------- one run, by steps
\* One ainvoke call followed node by node.  tasks holds the run: the node it
\* is at, the state, the resume value interrupt() still has to hand over,
\* how it ended ("running" until then), the number of nodes started, and the
\* node that ran last.
NewRun(st0, resume, env) ==
    [pc |-> "receive_upload", st |-> st0, st0 |-> st0, resume |-> resume,
     resume0 |-> resume, env |-> env, out |-> "running", steps |-> 0, prev |-> "START"]

\* the states a run starts on: the one process_lab_report builds, and the
\* checkpoint of a suspended thread with the password of
\* resume_with_password merged in
RunInputs ==
    {InitialState(sub[1], "p1", 1, sub[2], sub[3]) : sub \in PdfSubmissions}
    \cup {[InitialState(EncryptedPdf, "p1", 1, None, None)
              EXCEPT !.is_encrypted = TRUE, !.password = Some(p)] :
             p \in Passwords}

\* The routers start every run with a plain input (None).  A run started
\* with Command(resume=password) is explored as well: it is the only way
\* round the cycle decrypt_pdf -> request_password.
ResumeValues == {None} \cup {Some(p) : p \in Passwords}

InitRun ==
    /\ NoRequests
    /\ db = EmptyDb
    /\ applied = NotApplied
    /\ \E st0 \in RunInputs, resume \in ResumeValues :
          \E env \in Envs(st0.pdf_path.pages, Reliable) :
             tasks = <<NewRun(st0, resume, env)>>

\* r: what the node gave on run.st.  A node that is interrupted or raises
\* ends the run and writes nothing to the state.
StepWith(run, r) ==
    /\ db' = r.db
    /\ tasks' =
          <<IF r.out # "ok"
            THEN [run EXCEPT !.out = r.out, !.steps = @ + 1, !.prev = run.pc]
            ELSE [run EXCEPT
                     !.st = r.st,
                     !.pc = NextNode(run.pc, r.st),
                     !.resume = IF run.pc = "request_password" THEN None ELSE @,
                     !.out = IF NextNode(run.pc, r.st) = "END" THEN "end"
                             ELSE "running",
                     !.steps = @ + 1,
                     !.prev = run.pc]>>
    /\ Idle

\* the Pregel loop runs the node the run is at
Step ==
    /\ tasks[1].out = "running"
    /\ tasks[1].steps < MaxSteps
    /\ StepWith(tasks[1],
                ApplyNode(tasks[1].pc, tasks[1].st, db, tasks[1].resume,
                          tasks[1].env))

NextRun == Step

\* ainvoke is awaited: the loop goes on to the next node until the run ends
SpecRun == InitRun /\ [][NextRun]_vars /\ WF_vars(Step)

\* ------------------------------------------------------- one trend document
\* The trend of one patient and one biomarker over the lab reports that are
\* stored for them, one reading per report, through either persist path.
TrendValues == {0, 100, 104, 120}
TrendDays == 1..3

Inserted(fn, reading) ==
    [fn |-> fn, args |-> <<reading>>, done |-> TRUE, result |-> None]

InitTrend ==
    /\ NoRequests
    /\ db = EmptyDb
    /\ tasks = <<>>
    /\ applied = NotApplied

OnlyTrends == UNCHANGED <<threads, calls, checkpoints, workflow_store, runs, last, tasks>>

\* the trend step of save_results for one entry; k: what find_one gave.
\* With no trend the constructor raises and nothing is written.
PdfTrendStep(k, reading) ==
    /\ db' = IF k # 0 THEN [db EXCEPT !.trends[k] = add_reading(@, reading)] ELSE db
    /\ applied' = Inserted("add_reading", reading)
    /\ OnlyTrends

PdfReading ==
    /\ ReadingCount(db.trends) < MaxReadings
    /\ \E value \in TrendValues, day \in TrendDays :
          PdfTrendStep(FindTrend(db, "p1", "hemoglobin"),
                       Reading(ReadingCount(db.trends) + 1, TaskEntry(value), day))

\* update_biomarker_trend for one Biomarker of an image report
ImageReading ==
    /\ ReadingCount(db.trends) < MaxReadings
    /\ \E value \in TrendValues, day \in TrendDays :
          /\ db' = update_biomarker_trend(db, "p1", ReadingCount(db.trends) + 1,
                                          TaskEntry(value), day)
          /\ applied' = Inserted("update_biomarker_trend",
                                 Reading(ReadingCount(db.trends) + 1,
                                         TaskEntry(value), day))
          /\ OnlyTrends

NextTrend ==
    \/ PdfReading
    \/ ImageReading

SpecTrend == InitTrend /\ [][NextTrend]_vars

\* ------------------------------------------------- module-level functions
\* The functions of app/data/biomarker_mapping.py and the JSON recovery of
\* VisionService, called on their own: a call is drawn, then applied.
Pending(fn, args) == [fn |-> fn, args |-> args, done |-> FALSE, result |-> None]
Returned(call, result) == [call EXCEPT !.done = TRUE, !.result = result]

\* get_flag: <<how, standardized_name, value, gender>>.  "keyword" is
\* get_flag(name, value, gender=gender); "positional" is the call of
\* test_reference_ranges, get_flag(biomarker, value, gender), whose third
\* positional parameter is ref_min.
FlagNames == {"hemoglobin", "cholesterol_total", "unknown_test"}
FlagValues == 0..250
Genders == {None, Some("male"), Some("female"), Some("Male"), Some("other")}

FlagCalls ==
    {Pending("get_flag", <<how, n, v, g>>) :
        how \in {"keyword", "positional"}, n \in FlagNames, v \in FlagValues,
        g \in Genders}

\* standardize_biomarker_name, then get_biomarker_category of its result,
\* as test_biomarker_mapping calls them: <<name>>
RawNames ==
    {"Hemoglobin", "hemoglobin", "HEMOGLOBIN", " Hemoglobin ", "Hb", "Hgb", "HGB",
     "Haemoglobin", "Total Cholesterol", "total cholesterol", "Cholesterol", "TC",
     "Serum Cholesterol", "cholesterol_total", "Unknown Test", "UNKNOWN TEST",
     "unknown-test", ""}

StandardizeCalls == {Pending("standardize_biomarker_name", <<n>>) : n \in RawNames}

\* extract_json_from_text on a response that holds the object J in one of
\* these forms: <<form, J>>
JsonObjects ==
    {t \in UNION {[1..n -> JsonTokens] : n \in 2..MaxJsonTokens} :
        json_loads(t) # None}

Forms == {"bare", "json_fence", "fence", "prose", "prose_with_braces",
          "object_then_fence"}

ResponseText(form, J) ==
    CASE form = "bare" -> J
      [] form = "json_fence" -> <<"FENCE_JSON">> \o J \o <<"FENCE">>
      [] form = "fence" -> <<"FENCE">> \o J \o <<"FENCE">>
      [] form = "prose" -> <<"w", "w">> \o J
      [] form = "prose_with_braces" -> <<"w", "{", "w", "}", "w">> \o J
      [] form = "object_then_fence" ->
            <<"{", "m", "}", "w", "FENCE_JSON">> \o J \o <<"FENCE">>

JsonCalls ==
    {Pending("extract_json_from_text", <<f, J>>) : f \in Forms, J \in JsonObjects}

\* get_flag(name, value, ref_min, ref_max): <<name, value, ref_min, ref_max>>,
\* each bound supplied or not
SuppliedMins == {None, Some(135)}
SuppliedMaxs == {None, Some(160)}

BoundedFlagCalls ==
    {Pending("get_flag_with_bounds", <<n, v, lo, hi>>) :
        n \in FlagNames, v \in FlagValues, lo \in SuppliedMins, hi \in SuppliedMaxs}

\* the entry that is stored for one measurement read from a document, on
\* the three paths: <<path, bio>>
EntryPaths == {"llm", "vision", "image"}
EntryValues == {100, 125, 140, 170, 200}

DocumentBios ==
    {Bio(Some(n), Some(v), lo, hi, None) :
        n \in {"Hemoglobin", "Unknown Test"}, v \in EntryValues,
        lo \in SuppliedMins, hi \in SuppliedMaxs}

EntryCalls ==
    {Pending("biomarker_entry", <<path, bio>>) :
        path \in EntryPaths, bio \in DocumentBios}

\* extract_from_multiple_images(image_paths): <<results>>, one response of
\* extract_from_image per page
PageSamples ==
    { VisionError,
      VisionOk(Some("Aster"), Some(Date(1)), Some("CBC"), <<HgbNormal>>),
      VisionOk(Some(""), None, Some("OTHER"),
               <<Bio(Some("HEMOGLOBIN"), Some(110), None, None, Some("LOW")),
                 Bio(Some("TC"), Some(1800), None, None, None)>>),
      VisionOk(Some("Medlab"), Some(Date(2)), None,
               <<Bio(Some("hemoglobin"), Some(125), None, None, None),
                 Bio(Some("Hemoglobin"), Some(130), None, None, None)>>),
      VisionOk(None, None, Some("LIPID"), <<>>),
      VisionOk(None, Some(Date(2)), Some("CBC"), <<NullName>>) }

MergeCalls ==
    {Pending("extract_from_multiple_images", <<results>>) :
        results \in UNION {[1..n -> PageSamples] : n \in 1..MaxPages}}

\* the extract_text node and the edges behind it, on a state that holds a
\* document and the password the caller gave: <<doc, password>>
TextLengths == {0, 99, 100, 150, 199, 200, 299, 300, 350}

Documents ==
    {Pdf(pages, encrypted, IF pages = 0 THEN 0 ELSE textLen, 0, pages > 0 /\ images) :
        pages \in 0..MaxPages, encrypted \in BOOLEAN, textLen \in TextLengths,
        images \in BOOLEAN}

ExtractCalls ==
    {Pending("extract_text", <<doc, password>>) :
        doc \in Documents, password \in {None, Some("good"), Some("bad")}}

InitFunctions ==
    /\ NoRequests
    /\ db = EmptyDb
    /\ tasks = <<>>
    /\ applied \in FlagCalls \cup StandardizeCalls \cup JsonCalls
                     \cup BoundedFlagCalls \cup EntryCalls \cup MergeCalls
                     \cup ExtractCalls

Quiet == UNCHANGED <<threads, calls, checkpoints, workflow_store, db, runs, last, tasks>>

ApplyGetFlag ==
    /\ applied.fn = "get_flag"
    /\ ~applied.done
    /\ applied' = Returned(applied,
          IF applied.args[1] = "keyword"
          THEN get_flag(applied.args[2], applied.args[3], None, None, applied.args[4])
          ELSE get_flag(applied.args[2], applied.args[3], applied.args[4], None, None))
    /\ Quiet

\* the result is <<std_name, category>>
Categorized(std_name) == <<std_name, get_biomarker_category(std_name)>>

ApplyStandardize ==
    /\ applied.fn = "standardize_biomarker_name"
    /\ ~applied.done
    /\ applied' = Returned(applied,
                           Categorized(standardize_biomarker_name(applied.args[1])))
    /\ Quiet

ApplyExtractJson ==
    /\ applied.fn = "extract_json_from_text"
    /\ ~applied.done
    /\ applied' = Returned(applied,
          extract_json_from_text(ResponseText(applied.args[1], applied.args[2])))
    /\ Quiet

ApplyGetFlagWithBounds ==
    /\ applied.fn = "get_flag_with_bounds"
    /\ ~applied.done
    /\ applied' = Returned(applied,
          get_flag(applied.args[1], applied.args[2], applied.args[3],
                   applied.args[4], None))
    /\ Quiet

\* the loop body of standardize_agent (language model branch, vision branch)
\* and of process_image_report
BiomarkerEntry(path, bio) ==
    CASE path = "llm" -> StandardizeLlmBio(bio)
      [] path = "vision" -> StandardizeVisionBio(bio)
      [] path = "image" -> ImageBiomarker(bio)

ApplyBiomarkerEntry ==
    /\ applied.fn = "biomarker_entry"
    /\ ~applied.done
    /\ applied' = Returned(applied, BiomarkerEntry(applied.args[1], applied.args[2]))
    /\ Quiet

\* the result is [raised, value]
ApplyExtractFromMultiple ==
    /\ applied.fn = "extract_from_multiple_images"
    /\ ~applied.done
    /\ applied' = Returned(applied, extract_from_multiple_images(applied.args[1]))
    /\ Quiet

\* st: the state extract_text gave; the nodes the edges lead to from it
Routed(st) ==
    [extracted_text |-> st.extracted_text,
     needs_vision |-> st.needs_vision,
     next |-> NextNode("extract_text", st),
     after_vision |-> NextNode("vision_extraction", st)]

ApplyExtractText ==
    /\ applied.fn = "extract_text"
    /\ ~applied.done
    /\ applied' = Returned(applied,
          Routed(extract_text(InitialState(applied.args[1], "p1", 1, None,
                                           applied.args[2]),
                              EmptyDb).st))
    /\ Quiet

NextFunctions ==
    \/ ApplyExtractText
    \/ ApplyExtractFromMultiple
    \/ ApplyGetFlag
    \/ ApplyStandardize
    \/ ApplyExtractJson
    \/ ApplyGetFlagWithBounds
    \/ ApplyBiomarkerEntry

SpecFunctions == InitFunctions /\ [][NextFunctions]_vars

\* ------------------------------------------------------------------ claims
\* the graph state of thread t, the PDF threads, and the nodes that extract,
\* standardize or persist
PdfThread(t) == t \in ThreadIds /\ checkpoints[t] # None
GraphState(t) == Get(checkpoints[t])
EncryptedThread(t) == PdfThread(t) /\ GraphState(t).pdf_path.encrypted
WorkNodes ==
    {"decrypt_pdf", "extract_text", "vision_extraction", "collect_data",
     "standardize_agent", "save_results"}
Ran(node) == Count(last.ran, node) > 0
ImageThread(t) ==
    /\ t \in ThreadIds
    /\ workflow_store[t] # None
    /\ "vision_result" \in DOMAIN Get(workflow_store[t])
Readable(t) ==
    /\ PdfThread(t)
    /\ GraphState(t).pdf_path.pages > 0
    /\ ~GraphState(t).pdf_path.encrypted
ReportsOf(t) == {i \in 1..Len(db.reports) : db.reports[i].thread_id = t}

\* C1: a Submit of an encrypted PDF answers "waiting_password" with the
\* thread_id, has run no extraction, standardization or persistence, and has
\* stored the workflow state under the thread_id.
C1_SubmitEncryptedWaitsForPassword ==
    (last.op = "submit" /\ EncryptedThread(last.thread_id)) =>
        /\ last.resp.kind = "response"
        /\ last.resp.status = "waiting_password"
        /\ last.resp.thread_id = last.thread_id
        /\ \A n \in WorkNodes : ~Ran(n)
        /\ workflow_store[last.thread_id] # None

\* C2: a ResumeWithPassword that carries the correct password on the thread
\* of an encrypted PDF runs decrypt, extract_text, collect_data, standardize
\* and persist, and answers "completed" with a report_id.
C2_CorrectPasswordCompletes ==
    (/\ last.op = "resume_password"
     /\ EncryptedThread(last.thread_id)
     /\ last.password = Some(GraphState(last.thread_id).pdf_path.key)) =>
        /\ last.resp.kind = "response"
        /\ last.resp.status = "completed"
        /\ last.resp.report_id # None
        /\ \A n \in {"decrypt_pdf", "extract_text", "collect_data",
                     "standardize_agent", "save_results"} : Ran(n)

\* C3: every ResumeWithPassword that carries a wrong password on the thread
\* of an encrypted PDF answers "waiting_password", never "completed" or
\* "failed", and leaves report_type and biomarkers as they were.
C3_WrongPasswordKeepsWaiting ==
    [][\A t \in ThreadIds :
         (/\ EncryptedThread(t)
          /\ last'.op = "resume_password"
          /\ last'.thread_id = t
          /\ calls' = calls + 1
          /\ last'.password # Some(GraphState(t).pdf_path.key)) =>
            /\ last'.resp.kind = "response"
            /\ last'.resp.status = "waiting_password"
            /\ Get(checkpoints'[t]).report_type = GraphState(t).report_type
            /\ Get(checkpoints'[t]).biomarkers = GraphState(t).biomarkers]_vars

\* C4: after a wrong password on the thread of an encrypted PDF, a
\* ResumeWithPassword that carries the correct one clears decrypt_error,
\* goes on to extract_text and answers "completed", not "failed".
C4_WrongPasswordDoesNotPoison ==
    [][\A t \in ThreadIds :
         (/\ EncryptedThread(t)
          /\ last.op = "resume_password"
          /\ last.thread_id = t
          /\ last.password # Some(GraphState(t).pdf_path.key)
          /\ last'.op = "resume_password"
          /\ last'.thread_id = t
          /\ calls' = calls + 1
          /\ last'.password = Some(GraphState(t).pdf_path.key)) =>
            /\ last'.resp.kind = "response"
            /\ last'.resp.status = "completed"
            /\ Get(checkpoints'[t]).decrypt_error = None
            /\ Count(last'.ran, "extract_text") > 0]_vars

\* C5: no Resume starts again a step that had completed for the thread:
\* receive_upload, check_encryption, the text extraction and the vision
\* extraction are started at most once for a thread_id.
C5_ResumeRunsNoStepTwice ==
    \A t \in ThreadIds :
        (EncryptedThread(t) \/ ImageThread(t)) =>
            \A n \in {"receive_upload", "check_encryption", "extract_text",
                      "vision_extraction", "extract_from_image"} :
                runs[t][n] <= 1

\* C6: "completed" and "failed" are absorbing: once the stored workflow
\* state of a thread has one of them, no later request changes its status or
\* any other field of it.
C6_TerminalIsAbsorbing ==
    [][\A t \in ThreadIds :
         (/\ workflow_store[t] # None
          /\ Get(workflow_store[t]).status \in {"completed", "failed"}) =>
            /\ workflow_store'[t] = workflow_store[t]
            /\ checkpoints'[t] = checkpoints[t]]_vars

\* the content gave no report date
NoDateInContent(t) ==
    \/ GraphState(t).vision_data = None
    \/ Get(GraphState(t).vision_data).report_date = None

\* C7: on the PDF path and on the image path, a Submit that carries no
\* report date and whose content gives none is suspended with
\* "waiting_date" after extraction, before standardization and persistence:
\* no LabReport of the thread is written by it.
C7_NoDateWaitsForDate ==
    /\ (/\ last.op = "submit"
        /\ last.report_date = None
        /\ Readable(last.thread_id)
        /\ Ran("extract_text")
        /\ NoDateInContent(last.thread_id)) =>
            /\ last.resp.status = "waiting_date"
            /\ ~Ran("standardize_agent")
            /\ ~Ran("save_results")
            /\ ReportsOf(last.thread_id) = {}
    /\ (/\ last.op = "submit_image"
        /\ last.report_date = None
        /\ ~last.env.pages[1].error
        /\ last.env.pages[1].report_date = None) =>
            /\ last.resp.status = "waiting_date"
            /\ ReportsOf(last.thread_id) = {}

\* C8: a Submit of a file with zero pages fails in receive_upload: no later
\* node is started, and the workflow state the run returns has status
\* "failed" and an error.
C8_ZeroPagesStopsAtReceiveUpload ==
    (/\ last.op = "submit"
     /\ PdfThread(last.thread_id)
     /\ GraphState(last.thread_id).pdf_path.pages = 0) =>
        /\ last.ran = <<"receive_upload">>
        /\ GraphState(last.thread_id).status = "failed"
        /\ GraphState(last.thread_id).errors # <<>>

\* C9: no exception leaves a handler: a Submit, and a Resume on a known
\* thread_id, is answered by a ProcessResult with one of the defined
\* statuses.
C9_NoExceptionEscapes ==
    (last.op # "none" /\ last.resp.code # 404) =>
        /\ last.resp.kind = "response"
        /\ last.resp.status \in
              {"processing", "waiting_password", "waiting_date", "completed", "failed"}

\* no collaborator of the last request failed: no page of the vision model
\* came back as an error, the language model, if asked, did not raise, and
\* the database refused no write
NoCollaboratorFailed(t) ==
    /\ \A i \in 1..Len(last.env.pages) :
          GraphState(t).image_paths > 0 => ~last.env.pages[i].error
    /\ ~(/\ Ran("standardize_agent")
         /\ GraphState(t).combined_data # <<>>
         /\ VisionBiomarkers(GraphState(t)) = <<>>
         /\ last.env.llm.raised)
    /\ last.env.db_fails = 0

\* a Submit of a readable PDF that ran to its end with no collaborator
\* failing and with no biomarker extracted
SubmitFoundNoBiomarker ==
    /\ last.op = "submit"
    /\ Readable(last.thread_id)
    /\ last.resp.kind = "response"
    /\ NoCollaboratorFailed(last.thread_id)
    /\ GraphState(last.thread_id).biomarkers = <<>>

\* a Submit of an image the vision model read, with a well-formed report
\* date at hand and no biomarker extracted
SubmitImageFoundNoBiomarker ==
    /\ last.op = "submit_image"
    /\ ~last.env.pages[1].error
    /\ ImageBiomarkers(last.env.pages[1].biomarkers) = <<>>
    /\ \/ last.report_date # None /\ Get(last.report_date).valid
       \/ /\ last.report_date = None
          /\ last.env.pages[1].report_date # None
          /\ Get(last.env.pages[1].report_date).valid

CompletedWithNone == last.resp.status = "completed" /\ last.resp.total = Some(0)

ErrorsOf(checkpoint) == IF checkpoint = None THEN <<>> ELSE Get(checkpoint).errors

\* the messages of errs that save_results wrote
SaveErrors(errs) ==
    Cardinality({i \in 1..Len(errs) : errs[i] \in {ValidationError, WriteError}})

IsPrefix(a, b) == Len(a) <= Len(b) /\ SubSeq(b, 1, Len(a)) = a

\* what a save_results call has committed when its write number w is refused:
\* the LabReport, the Biomarker rows and the trend updates of earlier entries
ReportsBefore(w) == IF w > 1 THEN 1 ELSE 0
RowsBefore(w) == (w - 1) \div 2
ReadingsBefore(w) == IF w > 1 THEN (w - 2) \div 2 ELSE 0

\* d2 holds everything d holds, and w's earlier writes on top of it
CommittedUpTo(d, d2, w) ==
    /\ IsPrefix(d.reports, d2.reports)
    /\ Len(d2.reports) = Len(d.reports) + ReportsBefore(w)
    /\ IsPrefix(d.biomarkers, d2.biomarkers)
    /\ Len(d2.biomarkers) = Len(d.biomarkers) + RowsBefore(w)
    /\ Len(d2.trends) = Len(d.trends)
    /\ \A i \in 1..Len(d.trends) :
          \A j \in 1..Len(d.trends[i].readings) :
             \E k \in 1..Len(d2.trends[i].readings) :
                d2.trends[i].readings[k] = d.trends[i].readings[j]
    /\ ReadingCount(d2.trends) = ReadingCount(d.trends) + ReadingsBefore(w)

\* C11: when the database refuses a write of save_results, the request is
\* answered (no exception) with status "failed", the workflow state has
\* status "failed" and exactly one more save error than before, and the
\* writes made before the refused one are in the database, once each, with
\* everything that was there before.
C11_RefusedWriteFailsOnceAndKeepsWrites ==
    [][\A t \in ThreadIds :
         (/\ calls' = calls + 1
          /\ last'.thread_id = t
          /\ last'.env.db_fails # 0) =>
            /\ last'.resp.kind = "response"
            /\ last'.resp.status = "failed"
            /\ Get(checkpoints'[t]).status = "failed"
            /\ Get(workflow_store'[t]).status = "failed"
            /\ IsPrefix(ErrorsOf(checkpoints[t]), Get(checkpoints'[t]).errors)
            /\ SaveErrors(Get(checkpoints'[t]).errors) =
                  SaveErrors(ErrorsOf(checkpoints[t])) + 1
            /\ CommittedUpTo(db, db', last'.env.db_fails)]_vars

\* the trend write of the second measurement of a report was refused: the
\* LabReport, both Biomarker rows and the first trend update are in place
C11_Witness ==
    /\ last.op = "submit"
    /\ last.env.db_fails = 5
    /\ last.resp.status = "failed"
    /\ ReportsOf(last.thread_id) # {}
    /\ Cardinality({i \in 1..Len(db.biomarkers) :
                      db.biomarkers[i].report_id \in
                         {db.reports[j].id : j \in ReportsOf(last.thread_id)}}) = 2
    /\ ReadingCount(db.trends) = 2

\* a node before save_results set status "failed" in the run of a Submit:
\* the errors of a fresh thread hold the message that node appends with it
FailedBeforePersist(t) ==
    \E i \in 1..Len(GraphState(t).errors) :
        GraphState(t).errors[i] \in
            {"Invalid PDF file or no pages found", "No data to process"}

\* C12: when receive_upload or standardize_agent has set status "failed" in
\* the run of a Submit, no LabReport, Biomarker or trend reading is written
\* for the thread and the workflow state keeps status "failed".
C12_FailedRunPersistsNothing ==
    (/\ last.op = "submit"
     /\ last.resp.kind = "response"
     /\ PdfThread(last.thread_id)
     /\ FailedBeforePersist(last.thread_id)) =>
        /\ ReportsOf(last.thread_id) = {}
        /\ GraphState(last.thread_id).status = "failed"
        /\ ~Ran("save_results")

\* the rows of the biomarkers collection that belong to thread t's reports
RowsOf(d, t) ==
    {i \in 1..Len(d.biomarkers) :
        \E j \in 1..Len(d.reports) :
            /\ d.reports[j].thread_id = t
            /\ d.biomarkers[i].report_id = d.reports[j].id}

\* C13: a Submit of an unencrypted text PDF in which the language model reads
\* the single measurement hemoglobin 14.2 g/dL (13.5 - 17.5), for a patient
\* with no hemoglobin trend, is answered "completed" with one biomarker
\* (hemoglobin, CBC, no flag, not abnormal), and the LabReport, the
\* Biomarker row and the hemoglobin trend are in the database.
C13_HemoglobinEndToEnd ==
    [][\A t \in ThreadIds :
         (/\ calls' = calls + 1
          /\ last'.op = "submit"
          /\ last'.thread_id = t
          /\ checkpoints'[t] # None
          /\ Get(checkpoints'[t]).pdf_path = TextPdf
          /\ last'.env.llm = LlmOk("CBC", Some("Aster"), <<HgbNormal>>)
          /\ FindTrend(db, Get(checkpoints'[t]).patient_id, "hemoglobin") = 0) =>
            /\ last'.resp.kind = "response"
            /\ last'.resp.status = "completed"
            /\ last'.resp.total = Some(1)
            /\ Len(Get(checkpoints'[t]).biomarkers) = 1
            /\ Get(checkpoints'[t]).biomarkers[1].standardized_name = "hemoglobin"
            /\ Get(checkpoints'[t]).biomarkers[1].category = "CBC"
            /\ Get(checkpoints'[t]).biomarkers[1].flag = None
            /\ Get(checkpoints'[t]).biomarkers[1].is_abnormal = FALSE
            /\ \E j \in 1..Len(db'.reports) : db'.reports[j].thread_id = t
            /\ Cardinality(RowsOf(db', t)) = 1
            /\ FindTrend(db', Get(checkpoints'[t]).patient_id, "hemoglobin") # 0]_vars

\* ------------------------------------------------------------------ trends
RatioEq(a, b) == a.num * b.den = b.num * a.den

SortedByDate(readings) ==
    \A i \in 1..(Len(readings) - 1) : readings[i].date <= readings[i + 1].date

\* the reading with the latest date (the last of them in the sequence)
LastByDate(readings) == readings[Len(readings)]

\* C14: in every trend document the readings are sorted by date,
\* reading_count is their number, min, max and average are those of all
\* their values, and latest_value, latest_date and latest_flag are those of
\* the reading with the latest date.
C14_TrendFieldsAgreeWithReadings ==
    \A i \in 1..Len(db.trends) :
        /\ SortedByDate(db.trends[i].readings)
        /\ db.trends[i].reading_count = Len(db.trends[i].readings)
        /\ db.trends[i].min_value = MinSeq(Values(db.trends[i].readings))
        /\ db.trends[i].max_value = MaxSeq(Values(db.trends[i].readings))
        /\ RatioEq(db.trends[i].average_value,
                   Ratio(SumSeq(Values(db.trends[i].readings)),
                         Len(db.trends[i].readings)))
        /\ db.trends[i].latest_value = LastByDate(db.trends[i].readings).value
        /\ db.trends[i].latest_date = LastByDate(db.trends[i].readings).date
        /\ db.trends[i].latest_flag = LastByDate(db.trends[i].readings).flag

\* (last - first) / first * 100 over the readings in date order
FirstToLastPercent(readings) ==
    Ratio((readings[Len(readings)].value - readings[1].value) * 100,
          readings[1].value)

\* C15: in every trend document with two or more readings, trend_percent is
\* (last - first) / first * 100 for the earliest and the latest reading by
\* date.
C15_TrendPercentIsFirstToLast ==
    \A i \in 1..Len(db.trends) :
        (Len(db.trends[i].readings) >= 2 /\ db.trends[i].readings[1].value # 0) =>
            RatioEq(db.trends[i].trend_percent,
                    FirstToLastPercent(db.trends[i].readings))

\* the trend document find_one gives for the patient and the biomarker
TrendOf(patient_id, name) == db.trends[FindTrend(db, patient_id, name)]

\* C16: when both persist loops have written their reading without an error,
\* the patient's trend of the biomarker holds both readings, and its
\* reading_count, min, max, average and trend_percent are those of the
\* reading sequence.
C16_NoLostUpdate ==
    (tasks # <<>> /\ \A t \in TaskIds : tasks[t].pc = "done") =>
        /\ FindTrend(db, "p1", "hemoglobin") # 0
        /\ \A t \in TaskIds :
              \E k \in 1..Len(TrendOf("p1", "hemoglobin").readings) :
                 TrendOf("p1", "hemoglobin").readings[k] = TaskReading(tasks[t])
        /\ TrendOf("p1", "hemoglobin").reading_count =
              Len(TrendOf("p1", "hemoglobin").readings)
        /\ TrendOf("p1", "hemoglobin").min_value =
              MinSeq(Values(TrendOf("p1", "hemoglobin").readings))
        /\ TrendOf("p1", "hemoglobin").max_value =
              MaxSeq(Values(TrendOf("p1", "hemoglobin").readings))

\* ----------------------------------------------------------------- catalog
\* the range the specification resolves: the gender's own when a gender is
\* supplied and the entry has one for it, else the default, else none
ResolvedRange(name, gender) ==
    IF name \notin CatalogKeys THEN <<None, None>>
    ELSE IF gender # None /\ LowerStrip(Get(gender)) \in DOMAIN CatalogReference(name)
    THEN RangeOf(CatalogReference(name)[LowerStrip(Get(gender))])
    ELSE RangeOf(CatalogReference(name)["default"])

\* the flag of a value (in tenths) against a range, by the stated thresholds
ThresholdFlag(value, range) ==
    IF range[1] = None \/ range[2] = None THEN None
    ELSE IF 10 * value < 8 * Get(range[1]) THEN Some("CRITICAL_LOW")
    ELSE IF value < Get(range[1]) THEN Some("LOW")
    ELSE IF 10 * value > 12 * Get(range[2]) THEN Some("CRITICAL_HIGH")
    ELSE IF value > Get(range[2]) THEN Some("HIGH")
    ELSE None

\* C17: every call of get_flag for a name, a value and a gender, made with
\* the gender as a keyword or as test_reference_ranges makes it, returns the
\* flag of the value against the range resolved for the name and the gender;
\* for hemoglobin and "male": 14.0 none, 12.5 LOW, 10.0 CRITICAL_LOW,
\* 18.0 HIGH, 22.0 CRITICAL_HIGH.
C17_FlagOfResolvedRange ==
    (applied.fn = "get_flag" /\ applied.done) =>
        /\ applied.result =
              ThresholdFlag(applied.args[3],
                            ResolvedRange(applied.args[2], applied.args[4]))
        /\ (applied.args[2] = "hemoglobin" /\ applied.args[4] = Some("male")) =>
              /\ applied.args[3] = 140 => applied.result = None
              /\ applied.args[3] = 125 => applied.result = Some("LOW")
              /\ applied.args[3] = 100 => applied.result = Some("CRITICAL_LOW")
              /\ applied.args[3] = 180 => applied.result = Some("HIGH")
              /\ applied.args[3] = 220 => applied.result = Some("CRITICAL_HIGH")

\* the keys whose alias list holds the name, compared in the form `fold`
\* gives both
KeysByAlias(folded, fold(_)) ==
    {k \in CatalogKeys : \E a \in Aliases(k) : fold(a) = folded}

\* the rule for a name folded to `folded`: the key it equals, else the key
\* that lists it as an alias, else its slug; the category is the catalog's
\* for a key and "OTHER" else
FollowsRule(result, folded, fold(_)) ==
    /\ folded \in CatalogKeys => result[1] = folded
    /\ (folded \notin CatalogKeys /\ KeysByAlias(folded, fold) # {}) =>
          result[1] \in KeysByAlias(folded, fold)
    /\ (folded \notin CatalogKeys /\ KeysByAlias(folded, fold) = {}) =>
          result[1] = Slug(folded)
    /\ result[2] = IF result[1] \in CatalogKeys THEN CatalogCategory(result[1])
                   ELSE "OTHER"

StandardizeReturned == applied.fn = "standardize_biomarker_name" /\ applied.done

\* C18 as stated: the name is compared ignoring case only.
C18_StandardizeIgnoresCase ==
    StandardizeReturned =>
        /\ FollowsRule(applied.result, Lower(applied.args[1]), Lower)
        /\ \A m \in RawNames :
              Lower(m) = Lower(applied.args[1]) =>
                 standardize_biomarker_name(m) = applied.result[1]

\* C18, amended: the name is compared ignoring case and the blanks around
\* it; names that differ in case only give the same result; "Total
\* Cholesterol" gives cholesterol_total / LIPID and "Unknown Test" gives
\* unknown_test / OTHER.
C18_StandardizeIgnoresCaseAndMargin ==
    StandardizeReturned =>
        /\ FollowsRule(applied.result, LowerStrip(applied.args[1]), LowerStrip)
        /\ \A m \in RawNames :
              Lower(m) = Lower(applied.args[1]) =>
                 standardize_biomarker_name(m) = applied.result[1]
        /\ applied.args[1] = "Total Cholesterol" =>
              applied.result = <<"cholesterol_total", "LIPID">>
        /\ applied.args[1] = "Unknown Test" =>
              applied.result = <<"unknown_test", "OTHER">>

\* an alias in another case than the catalog lists it was standardized
C18_Witness ==
    /\ StandardizeReturned
    /\ applied.args[1] = "total cholesterol"
    /\ applied.result = <<"cholesterol_total", "LIPID">>

\* ----------------------------------------------------------- JSON recovery
\* C19: for every JSON object J, extract_json_from_text gives J for J
\* alone, gives for J in fences what it gives for J alone, gives J for leading
\* prose followed by J, and gives a fenced J rather than an object found by
\* brace counting before the fence.
C19_FencedAndProseParseAsBare ==
    (applied.fn = "extract_json_from_text" /\ applied.done) =>
        /\ applied.args[1] = "bare" => applied.result = Some(applied.args[2])
        /\ applied.args[1] \in {"json_fence", "fence"} =>
              applied.result = extract_json_from_text(applied.args[2])
        /\ applied.args[1] \in {"prose", "prose_with_braces"} =>
              applied.result = Some(applied.args[2])
        /\ applied.args[1] = "object_then_fence" =>
              applied.result = Some(applied.args[2])

\* ------------------------------------------------------------------ status
\* the handlers that answer with a status
StatusOps == {"submit", "submit_image", "resume_password", "resume_date"}

\* C20: a GetStatus on the thread of the request before it, when that request
\* was answered with a status, succeeds and reports that same status, with the
\* errors the workflow has accumulated.
C20_GetStatusAgreesWithLastResponse ==
    [][(/\ last.op \in StatusOps
        /\ last.resp.kind = "response"
        /\ last'.op = "get_status"
        /\ last'.thread_id = last.thread_id) =>
            /\ last'.resp.kind = "status"
            /\ last'.resp.status = last.resp.status
            /\ checkpoints[last.thread_id] # None =>
                  last'.resp.errors = Get(checkpoints[last.thread_id]).errors]_vars

\* ------------------------------------------------------------ first reading
\* the rows of d2.biomarkers that d does not hold, of the patient's biomarker
NewRowsOf(d, d2, patient_id, name) ==
    {i \in (Len(d.biomarkers) + 1)..Len(d2.biomarkers) :
        /\ d2.biomarkers[i].patient_id = patient_id
        /\ d2.biomarkers[i].standardized_name = name}

NewNames(d, d2) ==
    {d2.biomarkers[i].standardized_name :
        i \in (Len(d.biomarkers) + 1)..Len(d2.biomarkers)}

\* trend holds the reading of the Biomarker row and nothing else
TrendOfRowAlone(trend, row) ==
    /\ trend.readings = <<[date |-> row.test_date, value |-> row.value,
                           flag |-> row.flag, report_id |-> row.report_id]>>
    /\ trend.latest_value = row.value
    /\ trend.min_value = row.value
    /\ trend.max_value = row.value
    /\ RatioEq(trend.average_value, Ratio(row.value, 1))
    /\ trend.reading_count = 1
    /\ trend.trend_direction = "stable"
    /\ RatioEq(trend.trend_percent, Ratio(0, 1))

\* C21: when a request stores one Biomarker row of a biomarker for which the
\* patient had no trend, the trend exists afterwards and holds exactly that
\* reading: latest, min, max and average are its value, reading_count is 1,
\* trend_direction is "stable" and trend_percent is 0.
C21_FirstReadingCreatesTrend ==
    [][\A patient_id \in Patients : \A name \in NewNames(db, db') :
         (/\ FindTrend(db, patient_id, name) = 0
          /\ Cardinality(NewRowsOf(db, db', patient_id, name)) = 1) =>
            /\ FindTrend(db', patient_id, name) # 0
            /\ \A i \in NewRowsOf(db, db', patient_id, name) :
                  TrendOfRowAlone(db'.trends[FindTrend(db', patient_id, name)],
                                  db'.biomarkers[i])]_vars

\* ------------------------------------------------------------ trend fields
\* C22: in every trend whose earliest reading by date has value 0,
\* trend_percent is 0 and trend_direction is "stable", whatever they were
\* before the insert.
C22_ZeroFirstReadingGivesZeroPercent ==
    \A i \in 1..Len(db.trends) :
        db.trends[i].readings[1].value = 0 =>
            /\ RatioEq(db.trends[i].trend_percent, Ratio(0, 1))
            /\ db.trends[i].trend_direction = "stable"

\* C23: in every trend, trend_direction is "increasing" exactly when
\* trend_percent > 5, "decreasing" exactly when trend_percent < -5, and
\* "stable" otherwise.
C23_DirectionFollowsPercent ==
    \A i \in 1..Len(db.trends) :
        db.trends[i].trend_direction =
            IF RatioGt(db.trends[i].trend_percent, 5) THEN "increasing"
            ELSE IF RatioLt(db.trends[i].trend_percent, -5) THEN "decreasing"
            ELSE "stable"

\* C24: the collection never holds two trend documents of the same patient
\* and biomarker name, also when two persist loops store the first reading
\* of the pair at the same time.
C24_OneTrendPerPatientAndName ==
    \A i, j \in 1..Len(db.trends) :
        (/\ db.trends[i].patient_id = db.trends[j].patient_id
         /\ db.trends[i].biomarker_name = db.trends[j].biomarker_name) => i = j

\* ---------------------------------------------------------- explicit bounds
\* a supplied bound, else the bound of the catalog
BoundOr(supplied, catalog) == IF supplied # None THEN supplied ELSE catalog

SuppliedOverCatalog(name, ref_min, ref_max) ==
    <<BoundOr(ref_min, ResolvedRange(name, None)[1]),
      BoundOr(ref_max, ResolvedRange(name, None)[2])>>

\* C25: get_flag called with a reference minimum and/or maximum gives the
\* flag of the value against the supplied bounds, the catalog standing in
\* only for a bound that was not supplied; and the entry built for a
\* measurement on the language model, vision and image paths carries the
\* flag of its value against the bounds read from the document, the catalog
\* standing in for a bound the document does not give.
C25_SuppliedBoundsOverrideCatalog ==
    /\ (applied.fn = "get_flag_with_bounds" /\ applied.done) =>
          applied.result =
             ThresholdFlag(applied.args[2],
                 SuppliedOverCatalog(applied.args[1], applied.args[3],
                                     applied.args[4]))
    /\ (applied.fn = "biomarker_entry" /\ applied.done) =>
          applied.result.flag =
             ThresholdFlag(Get(applied.result.value),
                 SuppliedOverCatalog(applied.result.standardized_name,
                                     applied.args[2].reference_min,
                                     applied.args[2].reference_max))

\* ------------------------------------------------------------- page merging
\* the pages that gave a result, in page order
GoodPages(results) == {p \in 1..Len(results) : ~results[p].error}

\* the value of the last of the pages in giving, dflt when no page gives one
LastOf(results, giving, field, dflt) ==
    IF giving = {} THEN dflt
    ELSE results[CHOOSE p \in giving : \A q \in giving : q <= p][field]

\* the places <<page, index>> of the biomarkers of the pages
Places(results) ==
    {<<p, i>> \in (1..Len(results)) \X (1..2) :
        p \in GoodPages(results) /\ i <= Len(results[p].biomarkers)}

Later(a, b) == a[1] > b[1] \/ (a[1] = b[1] /\ a[2] > b[2])

SameName(a, b) == a.name # None /\ b.name # None /\ Lower(Get(a.name)) = Lower(Get(b.name))

\* out holds, for each name of the pages, the entry of its latest place
KeepsLatest(results, out) ==
    /\ \A i, j \in 1..Len(out) : SameName(out[i], out[j]) => i = j
    /\ \A i \in 1..Len(out) :
          \E a \in Places(results) :
             /\ results[a[1]].biomarkers[a[2]] = out[i]
             /\ \A b \in Places(results) :
                   SameName(results[b[1]].biomarkers[b[2]], out[i]) => ~Later(b, a)
    /\ \A a \in Places(results) :
          \E i \in 1..Len(out) : SameName(results[a[1]].biomarkers[a[2]], out[i])

\* C26: extract_from_multiple_images returns, for any pages, lab_name,
\* report_date and report_type of the last page that gave a non-empty (for
\* report_type also non-"OTHER") value, and biomarkers with no two names
\* equal ignoring case, each the entry of the latest page that holds the
\* name.
C26_MergeIsFoldOverPages ==
    (applied.fn = "extract_from_multiple_images" /\ applied.done) =>
        /\ ~applied.result.raised
        /\ applied.result.value.lab_name =
              LastOf(applied.args[1],
                     {p \in GoodPages(applied.args[1]) :
                         Truthy(applied.args[1][p].lab_name)},
                     "lab_name", None)
        /\ applied.result.value.report_date =
              LastOf(applied.args[1],
                     {p \in GoodPages(applied.args[1]) :
                         applied.args[1][p].report_date # None},
                     "report_date", None)
        /\ Some(applied.result.value.report_type) =
              LastOf(applied.args[1],
                     {p \in GoodPages(applied.args[1]) :
                         /\ Truthy(applied.args[1][p].report_type)
                         /\ applied.args[1][p].report_type # Some("OTHER")},
                     "report_type", Some("OTHER"))
        /\ KeepsLatest(applied.args[1], applied.result.value.biomarkers)

\* ------------------------------------------------------------ failed pages
\* the messages the nodes write for their own failures
NodeMessages ==
    {"Invalid PDF file or no pages found", "Decryption failed",
     "Failed to convert PDF to images", "No data to process",
     "Agent extraction failed", ValidationError, WriteError}

IsGoodPage(r) == ~r.error

\* the last request ran vision_extraction over pages of which one gave no
\* JSON that could be parsed
PageFailed ==
    /\ last.op \in {"submit", "resume_password", "resume_date"}
    /\ PdfThread(last.thread_id)
    /\ Ran("vision_extraction")
    /\ GraphState(last.thread_id).needs_vision
    /\ \E p \in 1..Len(last.env.pages) : last.env.pages[p] = VisionError

\* C27: when a page of a document gives a response that cannot be parsed,
\* the workflow state's errors hold an entry for that page, the other pages
\* are merged as if the page were not there, and the run goes on to
\* collect_data.
C27_UnparsedPageIsRecorded ==
    PageFailed =>
        /\ \E i \in 1..Len(GraphState(last.thread_id).errors) :
              GraphState(last.thread_id).errors[i] \notin NodeMessages
        /\ Ran("collect_data")
        /\ GraphState(last.thread_id).vision_data =
              Some(extract_from_multiple_images(
                       SelectSeq(last.env.pages, IsGoodPage)).value)

C29_OneLabReportPerThread ==
    \A t \in ThreadIds : Cardinality(ReportsOf(t)) <= 1

\* ------------------------------------------------------------- termination
RunEnded == tasks[1].out \in {"end", "interrupt", "raise"}

\* the run is back at request_password after a failed decrypt_pdf
BackAtRequest ==
    /\ tasks[1].out = "running"
    /\ tasks[1].pc = "request_password"
    /\ tasks[1].prev = "decrypt_pdf"

\* the run followed node by node ends as ainvoke gives it
StepsAgreeWithRunFrom ==
    RunEnded =>
        LET r == RunFrom("receive_upload", tasks[1].st0, EmptyDb,
                         tasks[1].resume0, tasks[1].env, <<>>)
        IN  /\ r.out = tasks[1].out
            /\ r.st = tasks[1].st
            /\ r.db = db
            /\ Len(r.ran) = tasks[1].steps

=============================================================================
